---------------------------- MODULE Spec2Model ----------------------------
(***************************************************************************)
(* Model of DcgmHealthWatch (src/unnamed/part_000): the watch registry,    *)
(* the per-category watch installers, the entity router (SetWatches,       *)
(* MonitorWatches, MonitorWatchesForGpu), the evaluators and the           *)
(* uncontained-error tracker.                                              *)
(*                                                                         *)
(* The core proxy (mpCoreProxy) is the environment.  Its answers are       *)
(* inputs of each call: the status of GetGroupEntities, the status of each *)
(* AddFieldWatch, the status of UpdateAllFields, and for every sample      *)
(* query a response (status, value).  A query that does not return         *)
(* DCGM_ST_OK leaves the caller's sample buffer as it was.                 *)
(*                                                                         *)
(* Times are in milliseconds (the source uses microseconds; 3600000000     *)
(* does not fit TLC's integers), so 30000 is the source's 30000000ll.      *)
(***************************************************************************)
EXTENDS Integers, Sequences, FiniteSets, TLC

(***************************************************************************)
(* Status codes (dcgmReturn_t).                                            *)
(***************************************************************************)
DCGM_ST_OK == "DCGM_ST_OK"
DCGM_ST_BADPARAM == "DCGM_ST_BADPARAM"
DCGM_ST_GENERIC_ERROR == "DCGM_ST_GENERIC_ERROR"
DCGM_ST_NOT_CONFIGURED == "DCGM_ST_NOT_CONFIGURED"
DCGM_ST_NO_DATA == "DCGM_ST_NO_DATA"
DCGM_ST_NOT_WATCHED == "DCGM_ST_NOT_WATCHED"
DCGM_ST_TIMEOUT == "DCGM_ST_TIMEOUT"

(***************************************************************************)
(* Entity groups (dcgm_field_entity_group_t).                              *)
(***************************************************************************)
DCGM_FE_GPU == "DCGM_FE_GPU"
DCGM_FE_SWITCH == "DCGM_FE_SWITCH"
DCGM_FE_GPU_I == "DCGM_FE_GPU_I"
DCGM_FE_GPU_CI == "DCGM_FE_GPU_CI"
DCGM_FE_LINK == "DCGM_FE_LINK"
DCGM_FE_CPU == "DCGM_FE_CPU"

(***************************************************************************)
(* Health systems (dcgmHealthSystems_t): one bit each.                     *)
(***************************************************************************)
DCGM_HEALTH_WATCH_PCIE == 1
DCGM_HEALTH_WATCH_NVLINK == 2
DCGM_HEALTH_WATCH_MEM == 16
DCGM_HEALTH_WATCH_INFOROM == 64
DCGM_HEALTH_WATCH_THERMAL == 128
DCGM_HEALTH_WATCH_POWER == 256
DCGM_HEALTH_WATCH_NVSWITCH_NONFATAL == 1024
DCGM_HEALTH_WATCH_NVSWITCH_FATAL == 2048
DCGM_HEALTH_WATCH_COUNT_V1 == 10
DCGM_HEALTH_WATCH_COUNT_V2 == 12
DCGM_MAX_NUM_DEVICES == 32

\* systems & bit, for a single-bit value bit
HasBit(systems, bit) == (systems \div bit) % 2 = 1

(***************************************************************************)
(* Field ids.                                                              *)
(***************************************************************************)
DCGM_FI_DEV_PCIE_REPLAY_COUNTER == "DCGM_FI_DEV_PCIE_REPLAY_COUNTER"
DCGM_FI_DEV_ECC_DBE_VOL_TOTAL == "DCGM_FI_DEV_ECC_DBE_VOL_TOTAL"
DCGM_FI_DEV_RETIRED_SBE == "DCGM_FI_DEV_RETIRED_SBE"
DCGM_FI_DEV_RETIRED_DBE == "DCGM_FI_DEV_RETIRED_DBE"
DCGM_FI_DEV_RETIRED_PENDING == "DCGM_FI_DEV_RETIRED_PENDING"
DCGM_FI_DEV_XID_ERRORS == "DCGM_FI_DEV_XID_ERRORS"
DCGM_FI_DEV_ROW_REMAP_FAILURE == "DCGM_FI_DEV_ROW_REMAP_FAILURE"
DCGM_FI_DEV_INFOROM_CONFIG_VALID == "DCGM_FI_DEV_INFOROM_CONFIG_VALID"
DCGM_FI_DEV_THERMAL_VIOLATION == "DCGM_FI_DEV_THERMAL_VIOLATION"
DCGM_FI_DEV_POWER_VIOLATION == "DCGM_FI_DEV_POWER_VIOLATION"
DCGM_FI_DEV_POWER_USAGE == "DCGM_FI_DEV_POWER_USAGE"
DCGM_FI_DEV_CPU_TEMP_CURRENT == "DCGM_FI_DEV_CPU_TEMP_CURRENT"
DCGM_FI_DEV_CPU_TEMP_WARNING == "DCGM_FI_DEV_CPU_TEMP_WARNING"
DCGM_FI_DEV_CPU_TEMP_CRITICAL == "DCGM_FI_DEV_CPU_TEMP_CRITICAL"
DCGM_FI_DEV_CPU_POWER_UTIL_CURRENT == "DCGM_FI_DEV_CPU_POWER_UTIL_CURRENT"
DCGM_FI_DEV_CPU_POWER_LIMIT == "DCGM_FI_DEV_CPU_POWER_LIMIT"
DCGM_FI_DEV_NVLINK_CRC_FLIT_ERROR_COUNT_TOTAL == "DCGM_FI_DEV_NVLINK_CRC_FLIT_ERROR_COUNT_TOTAL"
DCGM_FI_DEV_NVLINK_CRC_DATA_ERROR_COUNT_TOTAL == "DCGM_FI_DEV_NVLINK_CRC_DATA_ERROR_COUNT_TOTAL"
DCGM_FI_DEV_NVLINK_REPLAY_ERROR_COUNT_TOTAL == "DCGM_FI_DEV_NVLINK_REPLAY_ERROR_COUNT_TOTAL"
DCGM_FI_DEV_NVLINK_RECOVERY_ERROR_COUNT_TOTAL == "DCGM_FI_DEV_NVLINK_RECOVERY_ERROR_COUNT_TOTAL"
DCGM_FI_DEV_NVSWITCH_NON_FATAL_ERRORS == "DCGM_FI_DEV_NVSWITCH_NON_FATAL_ERRORS"
DCGM_FI_DEV_NVSWITCH_FATAL_ERRORS == "DCGM_FI_DEV_NVSWITCH_FATAL_ERRORS"

\* BuildFieldLists
m_nvSwitchNonFatalFieldIds == <<DCGM_FI_DEV_NVSWITCH_NON_FATAL_ERRORS>>
m_nvSwitchFatalFieldIds == <<DCGM_FI_DEV_NVSWITCH_FATAL_ERRORS>>

(***************************************************************************)
(* The groups of the group manager: GetGroupEntities(groupId) answers      *)
(* with this list when it succeeds.  Group ids above 2 are empty groups.   *)
(***************************************************************************)

Entity(eg, eid) == [entityGroupId |-> eg, entityId |-> eid]

GroupEntities(groupId) ==
    IF groupId = 1
    THEN << Entity(DCGM_FE_GPU, 0), Entity(DCGM_FE_CPU, 0), Entity(DCGM_FE_GPU_I, 1),
            Entity(DCGM_FE_LINK, 0), Entity(DCGM_FE_SWITCH, 0), Entity(DCGM_FE_GPU, 1) >>
    ELSE IF groupId = 2
    THEN << Entity(DCGM_FE_SWITCH, 1), Entity(DCGM_FE_GPU_CI, 0) >>
    ELSE << >>

GroupIds == {1, 2}

(***************************************************************************)
(* State.  mGroupWatchState and m_gpuHadUncontainedErrorXid are the        *)
(* members of DcgmHealthWatch; watches is the core's table of field        *)
(* subscriptions; last is the record of the most recent call (arguments,   *)
(* proxy calls made, result), NoCall once the caller has taken it.         *)
(***************************************************************************)
VARIABLES mGroupWatchState, m_gpuHadUncontainedErrorXid, watches, last

vars == <<mGroupWatchState, m_gpuHadUncontainedErrorXid, watches, last>>

NoCall == [op |-> "none"]

Max(a, b) == IF a >= b THEN a ELSE b

(***************************************************************************)
(* AddFieldWatch of the core proxy.  fx is the proxy's fault for this run: *)
(* the subscription key that fails and the status it fails with (a key of  *)
(* <<>> fails nothing).                                                    *)
(***************************************************************************)
WatchKey(eg, eid, fieldId) == <<eg, eid, fieldId>>

NoFault == [key |-> << >>, st |-> DCGM_ST_OK]

AddFieldWatch(fx, eg, eid, fieldId) ==
    IF fx.key = WatchKey(eg, eid, fieldId) THEN fx.st ELSE DCGM_ST_OK

\* one AddFieldWatch call as the proxy saw it
WatchCall(fx, eg, eid, req) ==
    [entityGroupId |-> eg, entityId |-> eid, fieldId |-> req.fieldId,
     updateInterval |-> req.updateInterval, maxKeepAge |-> req.maxKeepAge,
     subscribeForUpdates |-> req.subscribeForUpdates,
     ret |-> AddFieldWatch(fx, eg, eid, req.fieldId)]

Req(fieldId, updateInterval, maxKeepAge, subscribeForUpdates) ==
    [fieldId |-> fieldId, updateInterval |-> updateInterval,
     maxKeepAge |-> maxKeepAge, subscribeForUpdates |-> subscribeForUpdates]

(***************************************************************************)
(* ADD_WATCH and its written-out copies: the subscriptions of an installer *)
(* are issued in order and the first one that fails returns its status.    *)
(* acc = [ret, calls]: the status so far and the calls made.               *)
(***************************************************************************)
Ignored == [ret |-> DCGM_ST_OK, calls |-> << >>]

Called(acc, c) == [ret |-> c.ret, calls |-> Append(acc.calls, c)]

\* ADD_WATCH going on to the next subscription after a failure
RECURSIVE AddWatchesBestEffort(_, _, _, _, _)
AddWatchesBestEffort(fx, eg, eid, reqs, acc) ==
    IF reqs = << >> THEN acc
    ELSE AddWatchesBestEffort(fx, eg, eid, Tail(reqs),
            [ret |-> IF acc.ret # DCGM_ST_OK THEN acc.ret
                     ELSE WatchCall(fx, eg, eid, Head(reqs)).ret,
             calls |-> Append(acc.calls, WatchCall(fx, eg, eid, Head(reqs)))])

RECURSIVE AddWatches(_, _, _, _, _)
AddWatches(fx, eg, eid, reqs, acc) ==
    IF reqs = << >> \/ acc.ret # DCGM_ST_OK THEN acc
    ELSE AddWatches(fx, eg, eid, Tail(reqs), Called(acc, WatchCall(fx, eg, eid, Head(reqs))))

ADD_WATCH(fx, eg, eid, reqs) == AddWatches(fx, eg, eid, reqs, Ignored)

\* SetPcie without the early return on a disable
SetPcieAlways(fx, eg, eid, enable, updateInterval, maxKeepAge) ==
    ADD_WATCH(fx, eg, eid,
        << Req(DCGM_FI_DEV_PCIE_REPLAY_COUNTER, updateInterval, maxKeepAge, FALSE) >>)

SetPcie(fx, eg, eid, enable, updateInterval, maxKeepAge) ==
    IF ~enable THEN Ignored
    ELSE ADD_WATCH(fx, eg, eid,
            << Req(DCGM_FI_DEV_PCIE_REPLAY_COUNTER, updateInterval, maxKeepAge, FALSE) >>)

\* SetMem raising the interval before its first subscription
SetMemFloorFirst(fx, eg, eid, enable, updateInterval, maxKeepAge) ==
    IF ~enable THEN Ignored
    ELSE ADD_WATCH(fx, eg, eid,
            << Req(DCGM_FI_DEV_ECC_DBE_VOL_TOTAL, Max(30000, updateInterval), maxKeepAge, FALSE),
               Req(DCGM_FI_DEV_RETIRED_SBE, Max(30000, updateInterval), maxKeepAge, FALSE),
               Req(DCGM_FI_DEV_RETIRED_DBE, Max(30000, updateInterval), maxKeepAge, FALSE),
               Req(DCGM_FI_DEV_RETIRED_PENDING, Max(30000, updateInterval), maxKeepAge, FALSE),
               Req(DCGM_FI_DEV_XID_ERRORS, Max(30000, updateInterval), maxKeepAge, TRUE),
               Req(DCGM_FI_DEV_ROW_REMAP_FAILURE, Max(30000, updateInterval), maxKeepAge, FALSE) >>)

SetMem(fx, eg, eid, enable, updateInterval, maxKeepAge) ==
    IF ~enable THEN Ignored
    ELSE ADD_WATCH(fx, eg, eid,
            << Req(DCGM_FI_DEV_ECC_DBE_VOL_TOTAL, updateInterval, maxKeepAge, FALSE),
               Req(DCGM_FI_DEV_RETIRED_SBE, Max(30000, updateInterval), maxKeepAge, FALSE),
               Req(DCGM_FI_DEV_RETIRED_DBE, Max(30000, updateInterval), maxKeepAge, FALSE),
               Req(DCGM_FI_DEV_RETIRED_PENDING, Max(30000, updateInterval), maxKeepAge, FALSE),
               Req(DCGM_FI_DEV_XID_ERRORS, Max(30000, updateInterval), maxKeepAge, TRUE),
               Req(DCGM_FI_DEV_ROW_REMAP_FAILURE, Max(30000, updateInterval), maxKeepAge, FALSE) >>)

SetInforom(fx, eg, eid, enable, updateInterval, maxKeepAge) ==
    IF ~enable THEN Ignored
    ELSE ADD_WATCH(fx, eg, eid,
            << Req(DCGM_FI_DEV_INFOROM_CONFIG_VALID, Max(3600000, updateInterval),
                   Max(7200, maxKeepAge), FALSE) >>)

SetThermal(fx, eg, eid, enable, updateInterval, maxKeepAge) ==
    IF ~enable THEN Ignored
    ELSE ADD_WATCH(fx, eg, eid,
            << Req(DCGM_FI_DEV_THERMAL_VIOLATION, Max(30000, updateInterval), maxKeepAge, FALSE) >>)

SetPower(fx, eg, eid, enable, updateInterval, maxKeepAge) ==
    IF ~enable THEN Ignored
    ELSE ADD_WATCH(fx, eg, eid,
            << Req(DCGM_FI_DEV_POWER_VIOLATION, Max(30000, updateInterval), maxKeepAge, FALSE),
               Req(DCGM_FI_DEV_POWER_USAGE, Max(30000, updateInterval), maxKeepAge, FALSE) >>)

SetCpuThermal(fx, eg, eid, enable, updateInterval, maxKeepAge) ==
    IF ~enable THEN Ignored
    ELSE ADD_WATCH(fx, eg, eid,
            << Req(DCGM_FI_DEV_CPU_TEMP_CURRENT, Max(30000, updateInterval), maxKeepAge, FALSE),
               Req(DCGM_FI_DEV_CPU_TEMP_WARNING, Max(30000, updateInterval), maxKeepAge, FALSE),
               Req(DCGM_FI_DEV_CPU_TEMP_CRITICAL, Max(30000, updateInterval), maxKeepAge, FALSE) >>)

SetCpuPower(fx, eg, eid, enable, updateInterval, maxKeepAge) ==
    IF ~enable THEN Ignored
    ELSE ADD_WATCH(fx, eg, eid,
            << Req(DCGM_FI_DEV_CPU_POWER_UTIL_CURRENT, Max(30000, updateInterval), maxKeepAge, FALSE),
               Req(DCGM_FI_DEV_CPU_POWER_LIMIT, Max(30000, updateInterval), maxKeepAge, FALSE) >>)

SetNVLink(fx, eg, eid, enable, updateInterval, maxKeepAge) ==
    IF ~enable THEN Ignored
    ELSE ADD_WATCH(fx, eg, eid,
            << Req(DCGM_FI_DEV_NVLINK_CRC_FLIT_ERROR_COUNT_TOTAL, updateInterval, maxKeepAge, FALSE),
               Req(DCGM_FI_DEV_NVLINK_CRC_DATA_ERROR_COUNT_TOTAL, updateInterval, maxKeepAge, FALSE),
               Req(DCGM_FI_DEV_NVLINK_REPLAY_ERROR_COUNT_TOTAL, updateInterval, maxKeepAge, FALSE),
               Req(DCGM_FI_DEV_NVLINK_RECOVERY_ERROR_COUNT_TOTAL, updateInterval, maxKeepAge, FALSE) >>)

(***************************************************************************)
(* Events of a call, in execution order: proxy calls, installer and        *)
(* evaluator invocations, and accesses to the members under m_mutex.       *)
(***************************************************************************)
Ev(ev, eg, eid, what, ret) == [ev |-> ev, eg |-> eg, eid |-> eid, what |-> what, ret |-> ret]

WatchEvents(calls) ==
    [i \in 1 .. Len(calls) |->
        Ev("AddFieldWatch", calls[i].entityGroupId, calls[i].entityId, calls[i].fieldId,
           calls[i].ret)]

\* an installer invocation: its event, then the events of its subscriptions
Installed(name, enable, eg, eid, r) ==
    [ret |-> r.ret, calls |-> r.calls,
     tr |-> <<Ev(IF enable THEN "Installer(enable)" ELSE "Installer(disable)",
                 eg, eid, name, r.ret)>> \o WatchEvents(r.calls)]

(***************************************************************************)
(* SetNvSwitchWatches: for each switch, the non-fatal fields when that bit *)
(* is set, then the fatal fields when that bit is set; the first failing   *)
(* subscription returns.                                                   *)
(***************************************************************************)
NvSwitchReqs(fieldIds, updateInterval, maxKeepAge) ==
    [i \in 1 .. Len(fieldIds) |-> Req(fieldIds[i], updateInterval, maxKeepAge, FALSE)]

RECURSIVE NvSwitchWatches(_, _, _, _, _, _)
NvSwitchWatches(fx, groupSwitchIds, systems, updateInterval, maxKeepAge, acc) ==
    IF groupSwitchIds = << >> \/ acc.ret # DCGM_ST_OK THEN acc
    ELSE NvSwitchWatches(fx, Tail(groupSwitchIds), systems, updateInterval, maxKeepAge,
            AddWatches(fx, DCGM_FE_SWITCH, Head(groupSwitchIds),
                (IF HasBit(systems, DCGM_HEALTH_WATCH_NVSWITCH_NONFATAL)
                 THEN NvSwitchReqs(m_nvSwitchNonFatalFieldIds, updateInterval, maxKeepAge)
                 ELSE << >>)
                \o
                (IF HasBit(systems, DCGM_HEALTH_WATCH_NVSWITCH_FATAL)
                 THEN NvSwitchReqs(m_nvSwitchFatalFieldIds, updateInterval, maxKeepAge)
                 ELSE << >>),
                acc))

SetNvSwitchWatches(fx, groupSwitchIds, systems, updateInterval, maxKeepAge) ==
    NvSwitchWatches(fx, groupSwitchIds, systems, updateInterval, maxKeepAge, Ignored)

(***************************************************************************)
(* SetWatches, the bit loop of a GPU, GPU instance or compute instance.    *)
(* tmpRet is the function's local: a bit without an installer leaves it as *)
(* it is, and the loop ends after the first bit that leaves it not OK.     *)
(***************************************************************************)
Pow2(n) == 2 ^ n

GpuInstaller(fx, eg, eid, bit, enable, updateInterval, maxKeepAge) ==
    CASE bit = DCGM_HEALTH_WATCH_PCIE ->
           Installed("SetPcie", enable, eg, eid,
                     SetPcie(fx, eg, eid, enable, updateInterval, maxKeepAge))
      [] bit = DCGM_HEALTH_WATCH_MEM ->
           Installed("SetMem", enable, eg, eid,
                     SetMem(fx, eg, eid, enable, updateInterval, maxKeepAge))
      [] bit = DCGM_HEALTH_WATCH_INFOROM ->
           Installed("SetInforom", enable, eg, eid,
                     SetInforom(fx, eg, eid, enable, updateInterval, maxKeepAge))
      [] bit = DCGM_HEALTH_WATCH_THERMAL ->
           Installed("SetThermal", enable, eg, eid,
                     SetThermal(fx, eg, eid, enable, updateInterval, maxKeepAge))
      [] bit = DCGM_HEALTH_WATCH_POWER ->
           Installed("SetPower", enable, eg, eid,
                     SetPower(fx, eg, eid, enable, updateInterval, maxKeepAge))
      [] bit = DCGM_HEALTH_WATCH_NVLINK ->
           Installed("SetNVLink", enable, eg, eid,
                     SetNVLink(fx, eg, eid, enable, updateInterval, maxKeepAge))

GpuBits == {DCGM_HEALTH_WATCH_PCIE, DCGM_HEALTH_WATCH_MEM, DCGM_HEALTH_WATCH_INFOROM,
            DCGM_HEALTH_WATCH_THERMAL, DCGM_HEALTH_WATCH_POWER, DCGM_HEALTH_WATCH_NVLINK}

CpuInstaller(fx, eg, eid, bit, enable, updateInterval, maxKeepAge) ==
    CASE bit = DCGM_HEALTH_WATCH_THERMAL ->
           Installed("SetCpuThermal", enable, eg, eid,
                     SetCpuThermal(fx, eg, eid, enable, updateInterval, maxKeepAge))
      [] bit = DCGM_HEALTH_WATCH_POWER ->
           Installed("SetCpuPower", enable, eg, eid,
                     SetCpuPower(fx, eg, eid, enable, updateInterval, maxKeepAge))

CpuBits == {DCGM_HEALTH_WATCH_THERMAL, DCGM_HEALTH_WATCH_POWER}

\* acc = [tmpRet, calls, tr, groupSwitchIds]: the locals of SetWatches and what
\* the run has done so far.  tmpRet = Installer(...)
TmpRetAssigned(acc, r) ==
    [acc EXCEPT !.tmpRet = r.ret, !.calls = @ \o r.calls, !.tr = @ \o r.tr]

\* the check of tmpRet that ends the loop is made after each bit, so before
\* every bit but the first
RECURSIVE SetWatchesGpuBits(_, _, _, _, _, _, _)
SetWatchesGpuBits(fx, e, systems, updateInterval, maxKeepAge, bitIndex, acc) ==
    IF bitIndex >= DCGM_HEALTH_WATCH_COUNT_V2 \/ (bitIndex > 0 /\ acc.tmpRet # DCGM_ST_OK)
    THEN acc
    ELSE SetWatchesGpuBits(fx, e, systems, updateInterval, maxKeepAge, bitIndex + 1,
            IF Pow2(bitIndex) \in GpuBits
            THEN TmpRetAssigned(acc,
                    GpuInstaller(fx, e.entityGroupId, e.entityId, Pow2(bitIndex),
                                 HasBit(systems, Pow2(bitIndex)), updateInterval, maxKeepAge))
            ELSE acc)

RECURSIVE SetWatchesCpuBits(_, _, _, _, _, _, _)
SetWatchesCpuBits(fx, e, systems, updateInterval, maxKeepAge, bitIndex, acc) ==
    IF bitIndex >= DCGM_HEALTH_WATCH_COUNT_V2 \/ (bitIndex > 0 /\ acc.tmpRet # DCGM_ST_OK)
    THEN acc
    ELSE SetWatchesCpuBits(fx, e, systems, updateInterval, maxKeepAge, bitIndex + 1,
            IF Pow2(bitIndex) \in CpuBits
            THEN TmpRetAssigned(acc,
                    CpuInstaller(fx, e.entityGroupId, e.entityId, Pow2(bitIndex),
                                 HasBit(systems, Pow2(bitIndex)), updateInterval, maxKeepAge))
            ELSE acc)

\* every entity taken for a GPU, a GPU instance or a compute instance
FitsGpuHardwareCheckAny(entityGroupId) == TRUE

(***************************************************************************)
(* SetWatches, the loop over the group's entities.  acc carries tmpRet     *)
(* from one entity to the next, and the switch ids collected so far.       *)
(***************************************************************************)
FitsGpuHardwareCheck(entityGroupId) ==
    entityGroupId = DCGM_FE_GPU \/ entityGroupId = DCGM_FE_GPU_I \/ entityGroupId = DCGM_FE_GPU_CI

SetWatchesEntity(fx, e, systems, updateInterval, maxKeepAge, acc) ==
    IF FitsGpuHardwareCheck(e.entityGroupId)
    THEN SetWatchesGpuBits(fx, e, systems, updateInterval, maxKeepAge, 0, acc)
    ELSE IF e.entityGroupId = DCGM_FE_SWITCH
    THEN [acc EXCEPT !.groupSwitchIds = Append(@, e.entityId)]
    ELSE IF e.entityGroupId = DCGM_FE_CPU
    THEN SetWatchesCpuBits(fx, e, systems, updateInterval, maxKeepAge, 0, acc)
    ELSE acc

RECURSIVE SetWatchesEntities(_, _, _, _, _, _)
SetWatchesEntities(fx, entities, systems, updateInterval, maxKeepAge, acc) ==
    IF entities = << >> THEN acc
    ELSE SetWatchesEntities(fx, Tail(entities), systems, updateInterval, maxKeepAge,
            SetWatchesEntity(fx, Head(entities), systems, updateInterval, maxKeepAge, acc))

\* SetWatches returning the failure of the switch installer at once
SetWatchesReturnEarly(refreshRet, loop, sw) ==
    [ret |-> IF sw.ret # DCGM_ST_OK THEN sw.ret
             ELSE IF refreshRet # DCGM_ST_OK THEN refreshRet ELSE sw.ret,
     stored |-> TRUE,
     calls |-> loop.calls \o sw.calls,
     tr |-> loop.tr
            \o (IF Len(loop.groupSwitchIds) > 0
                THEN <<Ev("SetNvSwitchWatches", DCGM_FE_SWITCH, 0, "", sw.ret)>>
                     \o WatchEvents(sw.calls)
                ELSE << >>)
            \o (IF sw.ret # DCGM_ST_OK THEN << >>
                ELSE <<Ev("UpdateAllFields", "", 0, "", refreshRet)>>)]

(***************************************************************************)
(* SetWatches: the status returned, the proxy calls made, the events, and  *)
(* whether it stored the mask.  geRet is the status of GetGroupEntities,   *)
(* refreshRet that of UpdateAllFields.                                     *)
(***************************************************************************)
\* sw is what SetNvSwitchWatches did, Ignored when the group has no switch
\* (ret is then still the DCGM_ST_OK of GetGroupEntities)
SetWatchesReturn(refreshRet, loop, sw) ==
    [ret |-> IF refreshRet # DCGM_ST_OK THEN refreshRet ELSE sw.ret,
     stored |-> TRUE,
     calls |-> loop.calls \o sw.calls,
     tr |-> loop.tr
            \o (IF Len(loop.groupSwitchIds) > 0
                THEN <<Ev("SetNvSwitchWatches", DCGM_FE_SWITCH, 0, "", sw.ret)>>
                     \o WatchEvents(sw.calls)
                ELSE << >>)
            \o <<Ev("UpdateAllFields", "", 0, "", refreshRet)>>]

SetWatchesSwitches(fx, systems, updateInterval, maxKeepAge, refreshRet, loop) ==
    SetWatchesReturn(refreshRet, loop,
        IF Len(loop.groupSwitchIds) > 0
        THEN SetNvSwitchWatches(fx, loop.groupSwitchIds, systems, updateInterval, maxKeepAge)
        ELSE Ignored)

SetWatchesRun(groupId, systems, updateInterval, maxKeepAge, geRet, fx, refreshRet) ==
    IF geRet # DCGM_ST_OK
    THEN [ret |-> geRet, stored |-> FALSE, calls |-> << >>,
          tr |-> <<Ev("GetGroupEntities", "", groupId, "", geRet)>>]
    ELSE SetWatchesSwitches(fx, systems, updateInterval, maxKeepAge, refreshRet,
            SetWatchesEntities(fx, GroupEntities(groupId), systems, updateInterval, maxKeepAge,
                [tmpRet |-> DCGM_ST_OK, calls |-> << >>,
                 tr |-> <<Ev("GetGroupEntities", "", groupId, "", geRet),
                          Ev("mGroupWatchState.write", "", groupId, "", DCGM_ST_OK)>>,
                 groupSwitchIds |-> << >>]))

(***************************************************************************)
(* Samples.  The model halves the integer widths: a long long sample       *)
(* (val.i64) is a 32-bit integer and an int is 16 bits.  The blank values  *)
(* are the top of the range, as in dcgm_fields.h; doubles (val.d) are      *)
(* integers too, with their own blank values.                              *)
(***************************************************************************)
DCGM_INT64_BLANK == 2147483632
DCGM_INT64_NOT_SUPPORTED == 2147483634
DCGM_FP64_BLANK == 140737488
DCGM_FP64_NOT_SUPPORTED == 140737490

DCGM_INT64_IS_BLANK(val) == val >= DCGM_INT64_BLANK
DCGM_FP64_IS_BLANK(val) == val >= DCGM_FP64_BLANK

\* fields the cache stores as doubles: val.i64 of such a sample is the bit
\* pattern of the double, which is below DCGM_INT64_BLANK for every value
\* the cache stores, blank ones included
DoubleFields == {DCGM_FI_DEV_POWER_USAGE, DCGM_FI_DEV_CPU_TEMP_CURRENT,
                 DCGM_FI_DEV_CPU_TEMP_WARNING, DCGM_FI_DEV_CPU_TEMP_CRITICAL,
                 DCGM_FI_DEV_CPU_POWER_UTIL_CURRENT, DCGM_FI_DEV_CPU_POWER_LIMIT}

\* int x = <long long>: the low 16 bits, as a signed value
NarrowToInt(x) ==
    LET m == x % 65536 IN IF m >= 32768 THEN m - 65536 ELSE m

\* static_cast<unsigned int> of a long long (16 bits of the model's 32)
NarrowToUnsigned(x) == x % 65536

AbsDiff(a, b) == IF a >= b THEN a - b ELSE b - a

DCGM_LIMIT_MAX_PCIREPLAY_RATE == 8
DCGM_LIMIT_MAX_RETIRED_PAGES == 60
DCGM_LIMIT_MAX_RETIRED_PAGES_SOFT_LIMIT == 15
DCGM_LIMIT_MAX_NVLINK_ERROR == 1
DCGM_LIMIT_MAX_NVLINK_CRC_ERROR == 100
DCGM_NVLINK_MAX_LINKS_PER_GPU == 18
DCGM_NVLINK_MAX_LINKS_PER_NVSWITCH == 64
oneMinute == 60000

DCGM_HEALTH_RESULT_WARN == "WARN"
DCGM_HEALTH_RESULT_FAIL == "FAIL"

(***************************************************************************)
(* The sample store as one call sees it.  px.dflt is the response          *)
(* [st, v] to every query, px.key and px.resp the one query answered       *)
(* differently (a query is <<entity group, entity id, field, kind>>, kind  *)
(* being ASC or DESC for GetSamples in the window, WEEK for GetSamples up  *)
(* to one week before now, LATEST for GetLatestSample), px.linkRet and     *)
(* px.linkDown the answer of GetEntityNvLinkLinkStatus.                    *)
(***************************************************************************)
Resp(st, v) == [st |-> st, v |-> v]

Answer(px, eg, eid, fieldId, kind) ==
    IF px.key = <<eg, eid, fieldId, kind>> THEN px.resp ELSE px.dflt

\* a query into sample buffer prev: status, the buffer afterwards, the event
Query(px, eg, eid, fieldId, kind, prev) ==
    LET a == Answer(px, eg, eid, fieldId, kind)
    IN [ret |-> a.st,
        v |-> IF a.st = DCGM_ST_OK THEN a.v ELSE prev,
        tr |-> <<Ev(IF kind = "LATEST" THEN "GetLatestSample" ELSE "GetSamples",
                    eg, eid, fieldId, a.st)>>]

GetSamples(px, eg, eid, fieldId, order, prev) == Query(px, eg, eid, fieldId, order, prev)

GetLatestSample(px, eg, eid, fieldId, prev) == Query(px, eg, eid, fieldId, "LATEST", prev)

GetEntityNvLinkLinkStatus(px, eg, eid) ==
    [ret |-> px.linkRet, down |-> px.linkDown,
     tr |-> <<Ev("GetEntityNvLinkLinkStatus", eg, eid, "", px.linkRet)>>]

(***************************************************************************)
(* SetResponse: the incident appended to the response.                     *)
(***************************************************************************)
SetResponse(eg, eid, status, system, code, args) ==
    [system |-> system, health |-> status, entityGroupId |-> eg, entityId |-> eid,
     code |-> code, args |-> args]

\* what an evaluator hands back: status, incidents appended, events
Out(ret, inc, tr) == [ret |-> ret, inc |-> inc, tr |-> tr]

Expected(st) == st = DCGM_ST_OK \/ st = DCGM_ST_NO_DATA \/ st = DCGM_ST_NOT_WATCHED

MonitorPcieEndAtLimit(eg, eid, s, e) ==
    IF e.ret # DCGM_ST_OK \/ DCGM_INT64_IS_BLANK(e.v) THEN Out(DCGM_ST_OK, << >>, s.tr \o e.tr)
    ELSE IF NarrowToInt(AbsDiff(s.v, e.v)) >= DCGM_LIMIT_MAX_PCIREPLAY_RATE
    THEN Out(DCGM_ST_OK,
             <<SetResponse(eg, eid, DCGM_HEALTH_RESULT_WARN, DCGM_HEALTH_WATCH_PCIE,
                           "DCGM_FR_PCI_REPLAY_RATE", <<NarrowToInt(AbsDiff(s.v, e.v))>>)>>,
             s.tr \o e.tr)
    ELSE Out(DCGM_ST_OK, << >>, s.tr \o e.tr)

(***************************************************************************)
(* MonitorPcie.  s is what the query for the earliest sample of the window *)
(* gave, e what the query for the latest one gave.                         *)
(***************************************************************************)
MonitorPcieEnd(eg, eid, s, e) ==
    IF e.ret = DCGM_ST_NO_DATA THEN Out(DCGM_ST_OK, << >>, s.tr \o e.tr)
    ELSE IF e.ret = DCGM_ST_NOT_WATCHED THEN Out(DCGM_ST_OK, << >>, s.tr \o e.tr)
    ELSE IF e.ret # DCGM_ST_OK THEN Out(e.ret, << >>, s.tr \o e.tr)
    ELSE IF DCGM_INT64_IS_BLANK(e.v) THEN Out(DCGM_ST_OK, << >>, s.tr \o e.tr)
    \* int pciReplayRate = |start - end|
    ELSE IF NarrowToInt(AbsDiff(s.v, e.v)) > DCGM_LIMIT_MAX_PCIREPLAY_RATE
    THEN Out(DCGM_ST_OK,
             <<SetResponse(eg, eid, DCGM_HEALTH_RESULT_WARN, DCGM_HEALTH_WATCH_PCIE,
                           "DCGM_FR_PCI_REPLAY_RATE", <<NarrowToInt(AbsDiff(s.v, e.v))>>)>>,
             s.tr \o e.tr)
    ELSE Out(DCGM_ST_OK, << >>, s.tr \o e.tr)

MonitorPcieStart(px, eg, eid, s) ==
    IF s.ret = DCGM_ST_NO_DATA THEN Out(DCGM_ST_OK, << >>, s.tr)
    ELSE IF s.ret = DCGM_ST_NOT_WATCHED THEN Out(DCGM_ST_OK, << >>, s.tr)
    ELSE IF s.ret # DCGM_ST_OK THEN Out(s.ret, << >>, s.tr)
    ELSE IF DCGM_INT64_IS_BLANK(s.v) THEN Out(DCGM_ST_OK, << >>, s.tr)
    ELSE MonitorPcieEnd(eg, eid, s,
                        GetSamples(px, eg, eid, DCGM_FI_DEV_PCIE_REPLAY_COUNTER, "DESC", 0))

MonitorPcie(px, eg, eid, startTime, endTime) ==
    MonitorPcieStart(px, eg, eid,
                     GetSamples(px, eg, eid, DCGM_FI_DEV_PCIE_REPLAY_COUNTER, "ASC", 0))

(***************************************************************************)
(* MonitorMem and its five sub-checks                                      *)
(***************************************************************************)
VolatileDbes(eg, eid, s) ==
    IF ~Expected(s.ret) THEN Out(s.ret, << >>, s.tr)
    ELSE IF DCGM_INT64_IS_BLANK(s.v) THEN Out(DCGM_ST_OK, << >>, s.tr)
    ELSE IF s.v > 0
    THEN Out(DCGM_ST_OK,
             <<SetResponse(eg, eid, DCGM_HEALTH_RESULT_FAIL, DCGM_HEALTH_WATCH_MEM,
                           "DCGM_FR_VOLATILE_DBE_DETECTED", <<NarrowToUnsigned(s.v)>>)>>, s.tr)
    ELSE Out(DCGM_ST_OK, << >>, s.tr)

MonitorMemVolatileDbes(px, eg, eid, startTime, endTime) ==
    VolatileDbes(eg, eid, GetSamples(px, eg, eid, DCGM_FI_DEV_ECC_DBE_VOL_TOTAL, "DESC", 0))

RetiredPending(eg, eid, s) ==
    IF ~Expected(s.ret) THEN Out(s.ret, << >>, s.tr)
    ELSE IF ~DCGM_INT64_IS_BLANK(s.v) /\ s.v # 0
    THEN Out(DCGM_ST_OK,
             <<SetResponse(eg, eid, DCGM_HEALTH_RESULT_WARN, DCGM_HEALTH_WATCH_MEM,
                           "DCGM_FR_PENDING_PAGE_RETIREMENTS", << >>)>>, s.tr)
    ELSE Out(DCGM_ST_OK, << >>, s.tr)

MonitorMemRetiredPending(px, eg, eid, startTime, endTime) ==
    RetiredPending(eg, eid, GetSamples(px, eg, eid, DCGM_FI_DEV_RETIRED_PENDING, "DESC", 0))

SbeDbeWeekAgoAtOne(eg, eid, dbe, sbe, week) ==
    IF week.ret # DCGM_ST_OK /\ week.ret # DCGM_ST_NO_DATA
    THEN Out(sbe.ret, << >>, dbe.tr \o sbe.tr \o week.tr)
    ELSE IF DCGM_INT64_IS_BLANK(week.v) THEN Out(DCGM_ST_OK, << >>, dbe.tr \o sbe.tr \o week.tr)
    ELSE IF dbe.v - week.v >= 1
    THEN Out(DCGM_ST_OK,
             <<SetResponse(eg, eid, DCGM_HEALTH_RESULT_FAIL, DCGM_HEALTH_WATCH_MEM,
                           "DCGM_FR_RETIRED_PAGES_DBE_LIMIT", << >>)>>,
             dbe.tr \o sbe.tr \o week.tr)
    ELSE Out(DCGM_ST_OK, << >>, dbe.tr \o sbe.tr \o week.tr)

\* the comparison with the count of a week ago; ret is still the status of
\* the query for the SBE count
SbeDbeWeekAgo(eg, eid, dbe, sbe, week) ==
    IF week.ret # DCGM_ST_OK /\ week.ret # DCGM_ST_NO_DATA
    THEN Out(sbe.ret, << >>, dbe.tr \o sbe.tr \o week.tr)
    ELSE IF DCGM_INT64_IS_BLANK(week.v) THEN Out(DCGM_ST_OK, << >>, dbe.tr \o sbe.tr \o week.tr)
    ELSE IF dbe.v - week.v > 1
    THEN Out(DCGM_ST_OK,
             <<SetResponse(eg, eid, DCGM_HEALTH_RESULT_FAIL, DCGM_HEALTH_WATCH_MEM,
                           "DCGM_FR_RETIRED_PAGES_DBE_LIMIT", << >>)>>,
             dbe.tr \o sbe.tr \o week.tr)
    ELSE Out(DCGM_ST_OK, << >>, dbe.tr \o sbe.tr \o week.tr)

totalRetiredPages(dbe, sbe) ==
    (IF ~DCGM_INT64_IS_BLANK(sbe.v) THEN sbe.v ELSE 0)
    + (IF ~DCGM_INT64_IS_BLANK(dbe.v) THEN dbe.v ELSE 0)

SbeDbeLimitsWeekFirst(px, eg, eid, dbe, sbe) ==
    IF ~Expected(sbe.ret) THEN Out(sbe.ret, << >>, dbe.tr \o sbe.tr)
    ELSE IF ~DCGM_INT64_IS_BLANK(dbe.v) /\ dbe.v > DCGM_LIMIT_MAX_RETIRED_PAGES_SOFT_LIMIT
    THEN SbeDbeWeekAgo(eg, eid, dbe, sbe,
                       GetSamples(px, eg, eid, DCGM_FI_DEV_RETIRED_DBE, "WEEK", 0))
    ELSE IF totalRetiredPages(dbe, sbe) >= DCGM_LIMIT_MAX_RETIRED_PAGES
    THEN Out(sbe.ret,
             <<SetResponse(eg, eid, DCGM_HEALTH_RESULT_FAIL, DCGM_HEALTH_WATCH_MEM,
                           "DCGM_FR_RETIRED_PAGES_LIMIT", << >>)>>, dbe.tr \o sbe.tr)
    ELSE Out(DCGM_ST_OK, << >>, dbe.tr \o sbe.tr)

SbeDbeLimits(px, eg, eid, dbe, sbe) ==
    IF ~Expected(sbe.ret) THEN Out(sbe.ret, << >>, dbe.tr \o sbe.tr)
    ELSE IF totalRetiredPages(dbe, sbe) >= DCGM_LIMIT_MAX_RETIRED_PAGES
    THEN Out(sbe.ret,
             <<SetResponse(eg, eid, DCGM_HEALTH_RESULT_FAIL, DCGM_HEALTH_WATCH_MEM,
                           "DCGM_FR_RETIRED_PAGES_LIMIT", << >>)>>, dbe.tr \o sbe.tr)
    ELSE IF ~DCGM_INT64_IS_BLANK(dbe.v) /\ dbe.v > DCGM_LIMIT_MAX_RETIRED_PAGES_SOFT_LIMIT
    THEN SbeDbeWeekAgo(eg, eid, dbe, sbe,
                       GetSamples(px, eg, eid, DCGM_FI_DEV_RETIRED_DBE, "WEEK", 0))
    ELSE Out(DCGM_ST_OK, << >>, dbe.tr \o sbe.tr)

SbeDbeSecond(px, eg, eid, dbe) ==
    IF ~Expected(dbe.ret) THEN Out(dbe.ret, << >>, dbe.tr)
    ELSE SbeDbeLimits(px, eg, eid, dbe,
                      GetSamples(px, eg, eid, DCGM_FI_DEV_RETIRED_SBE, "DESC", 0))

MonitorMemSbeDbeRetiredPages(px, eg, eid, startTime, endTime) ==
    SbeDbeSecond(px, eg, eid, GetSamples(px, eg, eid, DCGM_FI_DEV_RETIRED_DBE, "DESC", 0))

RowRemapFailures(eg, eid, s) ==
    IF ~Expected(s.ret) THEN Out(s.ret, << >>, s.tr)
    ELSE IF DCGM_INT64_IS_BLANK(s.v) THEN Out(DCGM_ST_OK, << >>, s.tr)
    ELSE IF s.v > 0
    THEN Out(DCGM_ST_OK,
             <<SetResponse(eg, eid, DCGM_HEALTH_RESULT_FAIL, DCGM_HEALTH_WATCH_MEM,
                           "DCGM_FR_ROW_REMAP_FAILURE", << >>)>>, s.tr)
    ELSE Out(DCGM_ST_OK, << >>, s.tr)

MonitorMemRowRemapFailures(px, eg, eid, startTime, endTime) ==
    RowRemapFailures(eg, eid, GetSamples(px, eg, eid, DCGM_FI_DEV_ROW_REMAP_FAILURE, "DESC", 0))

MonitorUncontainedErrorsAnyDevice(xids, eg, eid, startTime, endTime) ==
    IF eid \notin xids
    THEN Out(DCGM_ST_OK, << >>,
             <<Ev("m_gpuHadUncontainedErrorXid.find", eg, eid, "", DCGM_ST_OK)>>)
    ELSE Out(DCGM_ST_OK,
             <<SetResponse(eg, eid, DCGM_HEALTH_RESULT_FAIL, DCGM_HEALTH_WATCH_MEM,
                           "DCGM_FR_UNCONTAINED_ERROR", << >>)>>,
             <<Ev("m_gpuHadUncontainedErrorXid.find", eg, eid, "", DCGM_ST_OK)>>)

\* xids is m_gpuHadUncontainedErrorXid, read under m_mutex
MonitorUncontainedErrors(xids, eg, eid, startTime, endTime) ==
    IF eg # DCGM_FE_GPU THEN Out(DCGM_ST_OK, << >>, << >>)
    ELSE IF eid \notin xids
    THEN Out(DCGM_ST_OK, << >>,
             <<Ev("m_gpuHadUncontainedErrorXid.find", eg, eid, "", DCGM_ST_OK)>>)
    ELSE Out(DCGM_ST_OK,
             <<SetResponse(eg, eid, DCGM_HEALTH_RESULT_FAIL, DCGM_HEALTH_WATCH_MEM,
                           "DCGM_FR_UNCONTAINED_ERROR", << >>)>>,
             <<Ev("m_gpuHadUncontainedErrorXid.find", eg, eid, "", DCGM_ST_OK)>>)

\* ret keeping the status of the first sub-check that failed
LatestKeepsFirst(ret, localReturn) == IF ret # DCGM_ST_OK THEN ret ELSE localReturn

\* ret after one more sub-check of MonitorMem
Latest(ret, localReturn) == IF localReturn # DCGM_ST_OK THEN localReturn ELSE ret

MonitorMemReturn(c1, c2, c3, c4, c5) ==
    Out(Latest(Latest(Latest(Latest(Latest(DCGM_ST_OK, c1.ret), c2.ret), c3.ret), c4.ret), c5.ret),
        c1.inc \o c2.inc \o c3.inc \o c4.inc \o c5.inc,
        c1.tr \o c2.tr \o c3.tr \o c4.tr \o c5.tr)

MonitorMem(px, xids, eg, eid, startTime, endTime) ==
    MonitorMemReturn(MonitorMemVolatileDbes(px, eg, eid, startTime, endTime),
                     MonitorMemRetiredPending(px, eg, eid, startTime, endTime),
                     MonitorMemSbeDbeRetiredPages(px, eg, eid, startTime, endTime),
                     MonitorMemRowRemapFailures(px, eg, eid, startTime, endTime),
                     MonitorUncontainedErrors(xids, eg, eid, startTime, endTime))

(***************************************************************************)
(* MonitorInforom, MonitorThermal, MonitorPower                            *)
(***************************************************************************)
Inforom(eg, eid, s) ==
    IF s.ret = DCGM_ST_NO_DATA THEN Out(DCGM_ST_OK, << >>, s.tr)
    ELSE IF s.ret = DCGM_ST_NOT_WATCHED THEN Out(DCGM_ST_OK, << >>, s.tr)
    ELSE IF s.ret # DCGM_ST_OK THEN Out(s.ret, << >>, s.tr)
    ELSE IF DCGM_INT64_IS_BLANK(s.v) THEN Out(DCGM_ST_OK, << >>, s.tr)
    ELSE IF s.v = 0
    THEN Out(s.ret,
             <<SetResponse(eg, eid, DCGM_HEALTH_RESULT_WARN, DCGM_HEALTH_WATCH_INFOROM,
                           "DCGM_FR_CORRUPT_INFOROM", << >>)>>, s.tr)
    ELSE Out(s.ret, << >>, s.tr)

MonitorInforom(px, eg, eid, startTime, endTime) ==
    Inforom(eg, eid, GetLatestSample(px, eg, eid, DCGM_FI_DEV_INFOROM_CONFIG_VALID, 0))

\* the second half of MonitorThermal and of MonitorPower: before holds the
\* incidents and events so far, s the earliest sample, e what the query for
\* the latest one gave
ViolationEnd(eg, eid, system, code, before, s, e) ==
    IF e.ret = DCGM_ST_NO_DATA THEN Out(DCGM_ST_OK, before.inc, before.tr \o s.tr \o e.tr)
    ELSE IF e.ret # DCGM_ST_OK THEN Out(e.ret, before.inc, before.tr \o s.tr \o e.tr)
    ELSE IF DCGM_INT64_IS_BLANK(e.v) THEN Out(DCGM_ST_OK, before.inc, before.tr \o s.tr \o e.tr)
    ELSE IF AbsDiff(s.v, e.v) # 0
    THEN Out(DCGM_ST_OK,
             before.inc \o <<SetResponse(eg, eid, DCGM_HEALTH_RESULT_WARN, system, code, << >>)>>,
             before.tr \o s.tr \o e.tr)
    ELSE Out(DCGM_ST_OK, before.inc, before.tr \o s.tr \o e.tr)

Nothing == Out(DCGM_ST_OK, << >>, << >>)

MonitorThermalStart(px, eg, eid, s) ==
    IF s.ret = DCGM_ST_NO_DATA THEN Out(DCGM_ST_OK, << >>, s.tr)
    ELSE IF s.ret # DCGM_ST_OK THEN Out(s.ret, << >>, s.tr)
    ELSE IF DCGM_INT64_IS_BLANK(s.v) THEN Out(DCGM_ST_OK, << >>, s.tr)
    ELSE ViolationEnd(eg, eid, DCGM_HEALTH_WATCH_THERMAL, "DCGM_FR_CLOCK_THROTTLE_THERMAL",
                      Nothing, s,
                      GetLatestSample(px, eg, eid, DCGM_FI_DEV_THERMAL_VIOLATION, 0))

MonitorThermal(px, eg, eid, startTime, endTime) ==
    MonitorThermalStart(px, eg, eid,
                        GetSamples(px, eg, eid, DCGM_FI_DEV_THERMAL_VIOLATION, "ASC", 0))

\* the warning for a GPU whose power reading is blank but not "not supported"
PowerUnreadable(eg, eid, u) ==
    IF u.ret = DCGM_ST_OK /\ DCGM_FP64_IS_BLANK(u.v) /\ u.v # DCGM_FP64_NOT_SUPPORTED
    THEN Out(u.ret,
             <<SetResponse(eg, eid, DCGM_HEALTH_RESULT_WARN, DCGM_HEALTH_WATCH_POWER,
                           "DCGM_FR_POWER_UNREADABLE", << >>)>>, u.tr)
    ELSE Out(u.ret, << >>, u.tr)

MonitorPowerStart(px, eg, eid, usage, s) ==
    IF s.ret = DCGM_ST_NO_DATA THEN Out(DCGM_ST_OK, usage.inc, usage.tr \o s.tr)
    ELSE IF s.ret # DCGM_ST_OK THEN Out(s.ret, usage.inc, usage.tr \o s.tr)
    ELSE IF DCGM_INT64_IS_BLANK(s.v) THEN Out(DCGM_ST_OK, usage.inc, usage.tr \o s.tr)
    ELSE ViolationEnd(eg, eid, DCGM_HEALTH_WATCH_POWER, "DCGM_FR_CLOCK_THROTTLE_POWER",
                      usage, s,
                      GetSamples(px, eg, eid, DCGM_FI_DEV_POWER_VIOLATION, "DESC", 0))

MonitorPower(px, eg, eid, startTime, endTime) ==
    MonitorPowerStart(px, eg, eid,
        IF eg = DCGM_FE_GPU
        THEN PowerUnreadable(eg, eid, GetLatestSample(px, eg, eid, DCGM_FI_DEV_POWER_USAGE, 0))
        ELSE Nothing,
        GetSamples(px, eg, eid, DCGM_FI_DEV_POWER_VIOLATION, "ASC", 0))

(***************************************************************************)
(* MonitorCpuThermal, MonitorCpuPower.  The fields are doubles: the blank  *)
(* test the source makes on val.i64 reads the bit pattern of the double.   *)
(***************************************************************************)
Int64ViewIsBlank(fieldId, v) ==
    IF fieldId \in DoubleFields THEN FALSE ELSE DCGM_INT64_IS_BLANK(v)

\* one query of a loop over fieldIds.  acc = [end, ret, val, tr]: whether the
\* function returned inside the loop and with what, the values read so far
CpuRead(fieldId, acc, q) ==
    IF q.ret = DCGM_ST_NO_DATA
    THEN [acc EXCEPT !.end = "return", !.ret = DCGM_ST_OK, !.tr = @ \o q.tr]
    ELSE IF q.ret # DCGM_ST_OK
    THEN [acc EXCEPT !.end = "return", !.ret = q.ret, !.tr = @ \o q.tr]
    ELSE IF Int64ViewIsBlank(fieldId, q.v)
    THEN [acc EXCEPT !.end = "return", !.ret = DCGM_ST_OK, !.tr = @ \o q.tr]
    ELSE [acc EXCEPT !.val = Append(@, q.v), !.tr = @ \o q.tr]

RECURSIVE CpuReadLoop(_, _, _, _, _, _)
CpuReadLoop(px, eg, eid, fieldIds, kind, acc) ==
    IF fieldIds = << >> \/ acc.end = "return" THEN acc
    ELSE CpuReadLoop(px, eg, eid, Tail(fieldIds), kind,
                     CpuRead(Head(fieldIds), acc, Query(px, eg, eid, Head(fieldIds), kind, 0)))

CpuReadStart(tr) == [end |-> "done", ret |-> DCGM_ST_OK, val |-> << >>, tr |-> tr]

CpuTempFieldIds ==
    <<DCGM_FI_DEV_CPU_TEMP_CURRENT, DCGM_FI_DEV_CPU_TEMP_WARNING, DCGM_FI_DEV_CPU_TEMP_CRITICAL>>

\* (start + end) / 2 >= warning, then end >= critical, on doubles
CpuThermalCheck(eg, eid, startValue, endValue) ==
    IF endValue.end = "return" THEN Out(endValue.ret, << >>, endValue.tr)
    ELSE Out(DCGM_ST_OK,
             (IF startValue.val[1] + endValue.val[1] >= 2 * endValue.val[2]
              THEN <<SetResponse(eg, eid, DCGM_HEALTH_RESULT_WARN, DCGM_HEALTH_WATCH_THERMAL,
                                 "DCGM_FR_FIELD_THRESHOLD_DBL", << >>)>>
              ELSE << >>)
             \o
             (IF endValue.val[1] >= endValue.val[3]
              THEN <<SetResponse(eg, eid, DCGM_HEALTH_RESULT_FAIL, DCGM_HEALTH_WATCH_THERMAL,
                                 "DCGM_FR_FIELD_THRESHOLD_DBL", << >>)>>
              ELSE << >>),
             endValue.tr)

CpuThermalEnd(px, eg, eid, startValue) ==
    IF startValue.end = "return" THEN Out(startValue.ret, << >>, startValue.tr)
    ELSE CpuThermalCheck(eg, eid, startValue,
            CpuReadLoop(px, eg, eid, CpuTempFieldIds, "LATEST", CpuReadStart(startValue.tr)))

MonitorCpuThermal(px, eg, eid, startTime, endTime) ==
    CpuThermalEnd(px, eg, eid,
                  CpuReadLoop(px, eg, eid, CpuTempFieldIds, "ASC", CpuReadStart(<< >>)))

CpuPowerCheck(eg, eid, currValue) ==
    IF currValue.end = "return" THEN Out(currValue.ret, << >>, currValue.tr)
    ELSE IF currValue.val[1] >= currValue.val[2]
    THEN Out(DCGM_ST_OK,
             <<SetResponse(eg, eid, DCGM_HEALTH_RESULT_FAIL, DCGM_HEALTH_WATCH_POWER,
                           "DCGM_FR_FIELD_THRESHOLD_DBL", << >>)>>, currValue.tr)
    ELSE Out(DCGM_ST_OK, << >>, currValue.tr)

MonitorCpuPower(px, eg, eid, startTime, endTime) ==
    CpuPowerCheck(eg, eid,
        CpuReadLoop(px, eg, eid,
                    <<DCGM_FI_DEV_CPU_POWER_UTIL_CURRENT, DCGM_FI_DEV_CPU_POWER_LIMIT>>,
                    "LATEST", CpuReadStart(<< >>)))

(***************************************************************************)
(* MonitorNVLink.  startValue and endValue are declared once, outside the  *)
(* loop over the four counters, so a query that fails leaves in them what  *)
(* the previous iteration read.  Times are in milliseconds.                *)
(***************************************************************************)
NvLinkFieldIds ==
    <<DCGM_FI_DEV_NVLINK_CRC_FLIT_ERROR_COUNT_TOTAL, DCGM_FI_DEV_NVLINK_CRC_DATA_ERROR_COUNT_TOTAL,
      DCGM_FI_DEV_NVLINK_REPLAY_ERROR_COUNT_TOTAL, DCGM_FI_DEV_NVLINK_RECOVERY_ERROR_COUNT_TOTAL>>

\* the counter named in an incident's message: its position in fieldIds
FieldTag(fieldId) == CHOOSE i \in 1 .. Len(NvLinkFieldIds) : NvLinkFieldIds[i] = fieldId

\* perSec >= DCGM_LIMIT_MAX_NVLINK_CRC_ERROR with perSec = nvLinkError / timeDiffInSec
\* computed on doubles: a zero interval gives +infinity, a negative one a negative rate
CrcRateOverLimit(nvLinkError, timeDiffMs) ==
    IF timeDiffMs > 0 THEN nvLinkError * 1000 >= DCGM_LIMIT_MAX_NVLINK_CRC_ERROR * timeDiffMs
    ELSE IF timeDiffMs = 0 THEN nvLinkError > 0
    ELSE FALSE

NvLinkIncident(px, eg, eid, fieldId, nvLinkError, startTime, endTime) ==
    IF fieldId = DCGM_FI_DEV_NVLINK_REPLAY_ERROR_COUNT_TOTAL
       \/ fieldId = DCGM_FI_DEV_NVLINK_RECOVERY_ERROR_COUNT_TOTAL
    THEN SetResponse(eg, eid, DCGM_HEALTH_RESULT_FAIL, DCGM_HEALTH_WATCH_NVLINK,
                     "DCGM_FR_NVLINK_ERROR_CRITICAL", <<nvLinkError, FieldTag(fieldId)>>)
    ELSE IF CrcRateOverLimit(nvLinkError,
                             IF endTime = 0 THEN px.now - startTime ELSE endTime - startTime)
    THEN SetResponse(eg, eid, DCGM_HEALTH_RESULT_FAIL, DCGM_HEALTH_WATCH_NVLINK,
                     "DCGM_FR_NVLINK_CRC_ERROR_THRESHOLD", <<nvLinkError, FieldTag(fieldId)>>)
    ELSE SetResponse(eg, eid, DCGM_HEALTH_RESULT_WARN, DCGM_HEALTH_WATCH_NVLINK,
                     "DCGM_FR_NVLINK_ERROR_THRESHOLD", <<nvLinkError, FieldTag(fieldId)>>)

\* the links reported down, by increasing index below max
LinkDownSeq(down, max) ==
    SelectSeq([i \in 1 .. max |-> i - 1], LAMBDA i : i \in down)

LinkDownIncidents(eg, eid, health, system, links) ==
    [i \in 1 .. Len(links) |->
        SetResponse(eg, eid, health, system, "DCGM_FR_NVLINK_DOWN", <<links[i]>>)]

NvLinkEndOverLimit(px, eg, eid, startTime, endTime, fieldId, acc, e) ==
    IF e.ret # DCGM_ST_OK /\ e.ret # DCGM_ST_NO_DATA
    THEN [acc EXCEPT !.end = "return", !.ret = e.ret, !.endValue = e.v, !.tr = @ \o e.tr]
    ELSE IF e.ret = DCGM_ST_NO_DATA \/ DCGM_INT64_IS_BLANK(e.v)
    THEN [acc EXCEPT !.endValue = e.v, !.tr = @ \o e.tr]
    ELSE IF AbsDiff(acc.startValue, e.v) > DCGM_LIMIT_MAX_NVLINK_ERROR
    THEN [acc EXCEPT !.endValue = e.v, !.tr = @ \o e.tr,
                     !.inc = Append(@, NvLinkIncident(px, eg, eid, fieldId,
                                                      AbsDiff(acc.startValue, e.v),
                                                      startTime, endTime))]
    ELSE [acc EXCEPT !.endValue = e.v, !.tr = @ \o e.tr]

\* acc = [end, ret, startValue, endValue, inc, tr].  The second query of an
\* iteration: e is what it gave
NvLinkEnd(px, eg, eid, startTime, endTime, fieldId, acc, e) ==
    IF e.ret # DCGM_ST_OK /\ e.ret # DCGM_ST_NO_DATA
    THEN [acc EXCEPT !.end = "return", !.ret = e.ret, !.endValue = e.v, !.tr = @ \o e.tr]
    ELSE IF e.ret = DCGM_ST_NO_DATA \/ DCGM_INT64_IS_BLANK(e.v)
    THEN [acc EXCEPT !.endValue = e.v, !.tr = @ \o e.tr]
    ELSE IF AbsDiff(acc.startValue, e.v) >= DCGM_LIMIT_MAX_NVLINK_ERROR
    THEN [acc EXCEPT !.endValue = e.v, !.tr = @ \o e.tr,
                     !.inc = Append(@, NvLinkIncident(px, eg, eid, fieldId,
                                                      AbsDiff(acc.startValue, e.v),
                                                      startTime, endTime))]
    ELSE [acc EXCEPT !.endValue = e.v, !.tr = @ \o e.tr]

\* the first query of an iteration: s is what it gave
NvLinkStart(px, eg, eid, startTime, endTime, fieldId, acc, s) ==
    IF ~Expected(s.ret)
    THEN [acc EXCEPT !.end = "return", !.ret = s.ret, !.startValue = s.v, !.tr = @ \o s.tr]
    ELSE IF s.ret = DCGM_ST_NO_DATA \/ s.v = DCGM_INT64_NOT_SUPPORTED \/ DCGM_INT64_IS_BLANK(s.v)
    THEN [acc EXCEPT !.startValue = s.v, !.tr = @ \o s.tr]
    ELSE NvLinkEnd(px, eg, eid, startTime, endTime, fieldId,
                   [acc EXCEPT !.startValue = s.v, !.tr = @ \o s.tr],
                   GetSamples(px, eg, eid, fieldId, "DESC", acc.endValue))

RECURSIVE NvLinkLoop(_, _, _, _, _, _, _)
NvLinkLoop(px, eg, eid, startTime, endTime, fieldIds, acc) ==
    IF fieldIds = << >> \/ acc.end = "return" THEN acc
    ELSE NvLinkLoop(px, eg, eid, startTime, endTime, Tail(fieldIds),
            NvLinkStart(px, eg, eid, startTime, endTime, Head(fieldIds), acc,
                        GetSamples(px, eg, eid, Head(fieldIds), "ASC", acc.startValue)))

NvLinkLinksDown(eg, eid, loop, ls) ==
    IF ls.ret # DCGM_ST_OK THEN Out(ls.ret, loop.inc, loop.tr \o ls.tr)
    ELSE Out(DCGM_ST_OK,
             loop.inc \o LinkDownIncidents(eg, eid, DCGM_HEALTH_RESULT_FAIL,
                                           DCGM_HEALTH_WATCH_NVLINK,
                                           LinkDownSeq(ls.down, DCGM_NVLINK_MAX_LINKS_PER_GPU)),
             loop.tr \o ls.tr)

NvLinkAfterLoop(px, eg, eid, loop) ==
    IF loop.end = "return" THEN Out(loop.ret, loop.inc, loop.tr)
    ELSE NvLinkLinksDown(eg, eid, loop, GetEntityNvLinkLinkStatus(px, DCGM_FE_GPU, eid))

MonitorNVLink(px, eg, eid, startTime, endTime) ==
    NvLinkAfterLoop(px, eg, eid,
        NvLinkLoop(px, eg, eid, IF startTime = 0 THEN px.now - oneMinute ELSE startTime, endTime,
                   NvLinkFieldIds,
                   [end |-> "done", ret |-> DCGM_ST_OK, startValue |-> 0, endValue |-> 0,
                    inc |-> << >>, tr |-> << >>]))

NvSwitchFieldAtZero(fatal, eg, eid, i, acc, q) ==
    IF q.ret # DCGM_ST_OK THEN [acc EXCEPT !.sample = q.v, !.tr = @ \o q.tr]
    ELSE IF ~DCGM_INT64_IS_BLANK(q.v) /\ q.v >= 0
    THEN [acc EXCEPT !.sample = q.v, !.tr = @ \o q.tr,
                     !.inc = Append(@,
                        SetResponse(eg, eid,
                                    IF fatal THEN DCGM_HEALTH_RESULT_FAIL
                                             ELSE DCGM_HEALTH_RESULT_WARN,
                                    IF fatal THEN DCGM_HEALTH_WATCH_NVSWITCH_FATAL
                                             ELSE DCGM_HEALTH_WATCH_NVSWITCH_NONFATAL,
                                    IF fatal THEN "DCGM_FR_NVSWITCH_FATAL_ERROR"
                                             ELSE "DCGM_FR_NVSWITCH_NON_FATAL_ERROR",
                                    <<i - 1>>))]
    ELSE [acc EXCEPT !.sample = q.v, !.tr = @ \o q.tr]

(***************************************************************************)
(* MonitorNvSwitchErrorCounts.  linkId is the field id minus the first id  *)
(* of the list, that is the position of the field in the list.             *)
(***************************************************************************)
\* acc = [sample, inc, tr]; q is what the query of field i gave
NvSwitchField(fatal, eg, eid, i, acc, q) ==
    IF q.ret # DCGM_ST_OK THEN [acc EXCEPT !.sample = q.v, !.tr = @ \o q.tr]
    ELSE IF ~DCGM_INT64_IS_BLANK(q.v) /\ q.v > 0
    THEN [acc EXCEPT !.sample = q.v, !.tr = @ \o q.tr,
                     !.inc = Append(@,
                        SetResponse(eg, eid,
                                    IF fatal THEN DCGM_HEALTH_RESULT_FAIL
                                             ELSE DCGM_HEALTH_RESULT_WARN,
                                    IF fatal THEN DCGM_HEALTH_WATCH_NVSWITCH_FATAL
                                             ELSE DCGM_HEALTH_WATCH_NVSWITCH_NONFATAL,
                                    IF fatal THEN "DCGM_FR_NVSWITCH_FATAL_ERROR"
                                             ELSE "DCGM_FR_NVSWITCH_NON_FATAL_ERROR",
                                    <<i - 1>>))]
    ELSE [acc EXCEPT !.sample = q.v, !.tr = @ \o q.tr]

RECURSIVE NvSwitchLoop(_, _, _, _, _, _, _)
NvSwitchLoop(px, fatal, eg, eid, fieldIds, i, acc) ==
    IF i > Len(fieldIds) THEN acc
    ELSE NvSwitchLoop(px, fatal, eg, eid, fieldIds, i + 1,
            NvSwitchField(fatal, eg, eid, i, acc,
                          GetSamples(px, eg, eid, fieldIds[i], "DESC", acc.sample)))

NvSwitchLinksDown(eg, eid, loop, ls) ==
    IF ls.ret # DCGM_ST_OK THEN Out(ls.ret, loop.inc, loop.tr \o ls.tr)
    ELSE Out(DCGM_ST_OK,
             loop.inc \o LinkDownIncidents(eg, eid, DCGM_HEALTH_RESULT_FAIL,
                                           DCGM_HEALTH_WATCH_NVSWITCH_FATAL,
                                           LinkDownSeq(ls.down, DCGM_NVLINK_MAX_LINKS_PER_NVSWITCH)),
             loop.tr \o ls.tr)

\* the link states read on both passes
NvSwitchAfterLoopBothPasses(px, fatal, eg, eid, loop) ==
    NvSwitchLinksDown(eg, eid, loop, GetEntityNvLinkLinkStatus(px, DCGM_FE_SWITCH, eid))

NvSwitchAfterLoop(px, fatal, eg, eid, loop) ==
    IF fatal THEN NvSwitchLinksDown(eg, eid, loop, GetEntityNvLinkLinkStatus(px, DCGM_FE_SWITCH, eid))
    ELSE Out(DCGM_ST_OK, loop.inc, loop.tr)

MonitorNvSwitchErrorCounts(px, fatal, eg, eid, startTime, endTime) ==
    NvSwitchAfterLoop(px, fatal, eg, eid,
        NvSwitchLoop(px, fatal, eg, eid,
                     IF fatal THEN m_nvSwitchFatalFieldIds ELSE m_nvSwitchNonFatalFieldIds,
                     1, [sample |-> 0, inc |-> << >>, tr |-> << >>]))

(***************************************************************************)
(* MonitorWatches and MonitorWatchesForGpu: the dispatch over health bits. *)
(* An evaluator that runs leaves an "Evaluator" event before its own.      *)
(***************************************************************************)
Ran(name, eg, eid, o) ==
    [o EXCEPT !.tr = <<Ev("Evaluator", eg, eid, name, o.ret)>> \o @]

\* case DCGM_HEALTH_WATCH_THERMAL and case DCGM_HEALTH_WATCH_POWER once the
\* GPU evaluator has run: break on its failure, else the CPU evaluator if
\* the entity is a CPU
ThenCpuThermal(px, eg, eid, startTime, endTime, first) ==
    IF first.ret # DCGM_ST_OK THEN <<first>>
    ELSE IF eg = DCGM_FE_CPU
    THEN <<first, Ran("MonitorCpuThermal", eg, eid,
                      MonitorCpuThermal(px, eg, eid, startTime, endTime))>>
    ELSE <<first>>

ThenCpuPower(px, eg, eid, startTime, endTime, first) ==
    IF first.ret # DCGM_ST_OK THEN <<first>>
    ELSE IF eg = DCGM_FE_CPU
    THEN <<first, Ran("MonitorCpuPower", eg, eid,
                      MonitorCpuPower(px, eg, eid, startTime, endTime))>>
    ELSE <<first>>

\* the evaluators the switch statement runs for one bit of one entity, in order
MonitorWatchesBit(px, xids, eg, eid, startTime, endTime, healthSystemsMask, bit) ==
    IF ~HasBit(healthSystemsMask, bit) THEN << >>
    ELSE CASE bit = DCGM_HEALTH_WATCH_PCIE ->
              IF FitsGpuHardwareCheck(eg)
              THEN <<Ran("MonitorPcie", eg, eid, MonitorPcie(px, eg, eid, startTime, endTime))>>
              ELSE << >>
         [] bit = DCGM_HEALTH_WATCH_MEM ->
              IF FitsGpuHardwareCheck(eg)
              THEN <<Ran("MonitorMem", eg, eid,
                         MonitorMem(px, xids, eg, eid, startTime, endTime))>>
              ELSE << >>
         [] bit = DCGM_HEALTH_WATCH_INFOROM ->
              IF FitsGpuHardwareCheck(eg)
              THEN <<Ran("MonitorInforom", eg, eid,
                         MonitorInforom(px, eg, eid, startTime, endTime))>>
              ELSE << >>
         [] bit = DCGM_HEALTH_WATCH_THERMAL ->
              IF FitsGpuHardwareCheck(eg)
              THEN ThenCpuThermal(px, eg, eid, startTime, endTime,
                                  Ran("MonitorThermal", eg, eid,
                                      MonitorThermal(px, eg, eid, startTime, endTime)))
              ELSE IF eg = DCGM_FE_CPU
              THEN <<Ran("MonitorCpuThermal", eg, eid,
                         MonitorCpuThermal(px, eg, eid, startTime, endTime))>>
              ELSE << >>
         [] bit = DCGM_HEALTH_WATCH_POWER ->
              IF FitsGpuHardwareCheck(eg)
              THEN ThenCpuPower(px, eg, eid, startTime, endTime,
                                Ran("MonitorPower", eg, eid,
                                    MonitorPower(px, eg, eid, startTime, endTime)))
              ELSE IF eg = DCGM_FE_CPU
              THEN <<Ran("MonitorCpuPower", eg, eid,
                         MonitorCpuPower(px, eg, eid, startTime, endTime))>>
              ELSE << >>
         [] bit = DCGM_HEALTH_WATCH_NVLINK ->
              IF FitsGpuHardwareCheck(eg)
              THEN <<Ran("MonitorNVLink", eg, eid,
                         MonitorNVLink(px, eg, eid, startTime, endTime))>>
              ELSE << >>
         [] bit = DCGM_HEALTH_WATCH_NVSWITCH_NONFATAL ->
              IF eg = DCGM_FE_SWITCH
              THEN <<Ran("MonitorNvSwitchErrorCounts(false)", eg, eid,
                         MonitorNvSwitchErrorCounts(px, FALSE, eg, eid, startTime, endTime))>>
              ELSE << >>
         [] bit = DCGM_HEALTH_WATCH_NVSWITCH_FATAL ->
              IF eg = DCGM_FE_SWITCH
              THEN <<Ran("MonitorNvSwitchErrorCounts(true)", eg, eid,
                         MonitorNvSwitchErrorCounts(px, TRUE, eg, eid, startTime, endTime))>>
              ELSE << >>
         [] OTHER -> << >>

\* the loop over the bits of one entity: the evaluators it runs, in order
RECURSIVE MonitorWatchesBits(_, _, _, _, _, _, _, _)
MonitorWatchesBits(px, xids, eg, eid, startTime, endTime, healthSystemsMask, index) ==
    IF index >= DCGM_HEALTH_WATCH_COUNT_V2 THEN << >>
    ELSE MonitorWatchesBit(px, xids, eg, eid, startTime, endTime, healthSystemsMask, Pow2(index))
         \o MonitorWatchesBits(px, xids, eg, eid, startTime, endTime, healthSystemsMask, index + 1)

\* the loop over the entities of the group
RECURSIVE MonitorWatchesEntities(_, _, _, _, _, _)
MonitorWatchesEntities(px, xids, entities, startTime, endTime, healthSystemsMask) ==
    IF entities = << >> THEN << >>
    ELSE MonitorWatchesBits(px, xids, Head(entities).entityGroupId, Head(entities).entityId,
                            startTime, endTime, healthSystemsMask, 0)
         \o MonitorWatchesEntities(px, xids, Tail(entities), startTime, endTime, healthSystemsMask)

RECURSIVE IncidentsOf(_)
IncidentsOf(runs) == IF runs = << >> THEN << >> ELSE Head(runs).inc \o IncidentsOf(Tail(runs))

RECURSIVE EventsOf(_)
EventsOf(runs) == IF runs = << >> THEN << >> ELSE Head(runs).tr \o EventsOf(Tail(runs))

\* every evaluator that runs assigns its status to ret, so the status
\* returned is that of the last evaluator that ran
MonitorWatchesReturn(find, runs) ==
    Out(IF runs = << >> THEN DCGM_ST_OK ELSE runs[Len(runs)].ret,
        IncidentsOf(runs), find \o EventsOf(runs))

MonitorWatchesMask(px, xids, groupId, startTime, endTime, healthSystemsMask, find) ==
    IF healthSystemsMask = 0 THEN Out(DCGM_ST_OK, << >>, find)
    ELSE MonitorWatchesReturn(find,
            MonitorWatchesEntities(px, xids, GroupEntities(groupId), startTime, endTime,
                                   healthSystemsMask))

\* MonitorWatches taking a group without an entry as watching everything
MonitorWatchesAll(px, xids, registry, groupId, startTime, endTime, geRet) ==
    IF geRet # DCGM_ST_OK
    THEN Out(geRet, << >>, <<Ev("GetGroupEntities", "", groupId, "", geRet)>>)
    ELSE MonitorWatchesMask(px, xids, groupId,
            IF DCGM_INT64_IS_BLANK(startTime) THEN 0 ELSE startTime,
            IF DCGM_INT64_IS_BLANK(endTime) THEN 0 ELSE endTime,
            IF groupId \in DOMAIN registry THEN registry[groupId] ELSE 4095,
            <<Ev("GetGroupEntities", "", groupId, "", geRet),
              Ev("mGroupWatchState.find", "", groupId, "", DCGM_ST_OK)>>)

\* registry is mGroupWatchState, geRet the status GetGroupEntities answers
MonitorWatches(px, xids, registry, groupId, startTime, endTime, geRet) ==
    IF geRet # DCGM_ST_OK
    THEN Out(geRet, << >>, <<Ev("GetGroupEntities", "", groupId, "", geRet)>>)
    ELSE MonitorWatchesMask(px, xids, groupId,
            IF DCGM_INT64_IS_BLANK(startTime) THEN 0 ELSE startTime,
            IF DCGM_INT64_IS_BLANK(endTime) THEN 0 ELSE endTime,
            IF groupId \in DOMAIN registry THEN registry[groupId] ELSE 0,
            <<Ev("GetGroupEntities", "", groupId, "", geRet),
              Ev("mGroupWatchState.find", "", groupId, "", DCGM_ST_OK)>>)

\* tmpRet = Evaluator(...); if ((ret == OK) && (tmpRet != OK)) ret = tmpRet
FirstKept(acc, o) ==
    [ret |-> IF acc.ret = DCGM_ST_OK /\ o.ret # DCGM_ST_OK THEN o.ret ELSE acc.ret,
     inc |-> acc.inc \o o.inc, tr |-> acc.tr \o o.tr]

MonitorWatchesForGpuBit(px, xids, gpuId, startTime, endTime, healthSystemsMask, bit, acc) ==
    LET eg == DCGM_FE_GPU
    IN IF ~HasBit(healthSystemsMask, bit) THEN acc
       ELSE CASE bit = DCGM_HEALTH_WATCH_PCIE ->
                   FirstKept(acc, Ran("MonitorPcie", eg, gpuId,
                                      MonitorPcie(px, eg, gpuId, startTime, endTime)))
              [] bit = DCGM_HEALTH_WATCH_MEM ->
                   FirstKept(acc, Ran("MonitorMem", eg, gpuId,
                                      MonitorMem(px, xids, eg, gpuId, startTime, endTime)))
              [] bit = DCGM_HEALTH_WATCH_INFOROM ->
                   FirstKept(acc, Ran("MonitorInforom", eg, gpuId,
                                      MonitorInforom(px, eg, gpuId, startTime, endTime)))
              [] bit = DCGM_HEALTH_WATCH_THERMAL ->
                   FirstKept(acc, Ran("MonitorThermal", eg, gpuId,
                                      MonitorThermal(px, eg, gpuId, startTime, endTime)))
              [] bit = DCGM_HEALTH_WATCH_POWER ->
                   FirstKept(acc, Ran("MonitorPower", eg, gpuId,
                                      MonitorPower(px, eg, gpuId, startTime, endTime)))
              [] bit = DCGM_HEALTH_WATCH_NVLINK ->
                   FirstKept(acc, Ran("MonitorNVLink", eg, gpuId,
                                      MonitorNVLink(px, eg, gpuId, startTime, endTime)))
              [] OTHER -> acc

RECURSIVE MonitorWatchesForGpuBits(_, _, _, _, _, _, _, _)
MonitorWatchesForGpuBits(px, xids, gpuId, startTime, endTime, healthSystemsMask, index, acc) ==
    IF index >= DCGM_HEALTH_WATCH_COUNT_V1 THEN acc
    ELSE MonitorWatchesForGpuBits(px, xids, gpuId, startTime, endTime, healthSystemsMask, index + 1,
             MonitorWatchesForGpuBit(px, xids, gpuId, startTime, endTime, healthSystemsMask,
                                     Pow2(index), acc))

\* MonitorWatchesForGpu with the range check off by one
MonitorWatchesForGpuRunOffByOne(px, xids, gpuId, startTime, endTime, healthSystemsMask) ==
    IF gpuId > DCGM_MAX_NUM_DEVICES THEN Out(DCGM_ST_BADPARAM, << >>, << >>)
    ELSE MonitorWatchesForGpuBits(px, xids, gpuId, startTime, endTime, healthSystemsMask, 0,
                                  Out(DCGM_ST_OK, << >>, << >>))

MonitorWatchesForGpuRun(px, xids, gpuId, startTime, endTime, healthSystemsMask) ==
    IF gpuId >= DCGM_MAX_NUM_DEVICES THEN Out(DCGM_ST_BADPARAM, << >>, << >>)
    ELSE MonitorWatchesForGpuBits(px, xids, gpuId, startTime, endTime, healthSystemsMask, 0,
                                  Out(DCGM_ST_OK, << >>, << >>))


(***************************************************************************)
(* The members' operations: the registry write of SetWatches, GetWatches,  *)
(* OnGroupRemove, ProcessXidFv and OnFieldValuesUpdate.                    *)
(***************************************************************************)
\* systems | mask, over the defined bits
RECURSIVE BitOr(_, _, _)
BitOr(a, b, index) ==
    IF index >= DCGM_HEALTH_WATCH_COUNT_V2 THEN 0
    ELSE (IF HasBit(a, Pow2(index)) \/ HasBit(b, Pow2(index)) THEN Pow2(index) ELSE 0)
         + BitOr(a, b, index + 1)

\* mGroupWatchState.insert({groupId, systems}): an existing entry is kept
StoreMaskInsert(registry, groupId, systems) ==
    IF groupId \in DOMAIN registry THEN registry
    ELSE [g \in DOMAIN registry \cup {groupId} |-> IF g = groupId THEN systems ELSE registry[g]]

\* mGroupWatchState[groupId] |= systems
StoreMaskMerge(registry, groupId, systems) ==
    [g \in DOMAIN registry \cup {groupId} |->
        IF g # groupId THEN registry[g]
        ELSE IF g \in DOMAIN registry THEN BitOr(registry[g], systems, 0)
        ELSE systems]

\* mGroupWatchState[groupId] = systems
StoreMask(registry, groupId, systems) ==
    [g \in DOMAIN registry \cup {groupId} |-> IF g = groupId THEN systems ELSE registry[g]]

\* *systems is written only on the success path; Unset stands for a value not written
Unset == -1

GetWatchesRun(registry, groupId, geRet) ==
    IF geRet # DCGM_ST_OK THEN [ret |-> geRet, systems |-> Unset]
    ELSE [ret |-> DCGM_ST_OK,
          systems |-> IF groupId \in DOMAIN registry THEN registry[groupId] ELSE 0]

\* OnGroupRemove that leaves the entry in place
EraseGroupKept(registry, groupId) == registry

EraseGroup(registry, groupId) ==
    [g \in DOMAIN registry \ {groupId} |-> registry[g]]

Fv(eg, eid, fieldId, value) ==
    [entityGroupId |-> eg, entityId |-> eid, fieldId |-> fieldId, value |-> value]

XID_UNCONTAINED == 95

\* ProcessXidFv flagging the device on every XID
ProcessXidFvAny(xids, fv) == xids \cup {fv.entityId}

\* ProcessXidFv clearing the flag of the device on any other XID
ProcessXidFvClears(xids, fv) ==
    IF fv.value = XID_UNCONTAINED THEN xids \cup {fv.entityId} ELSE xids \ {fv.entityId}

ProcessXidFv(xids, fv) ==
    IF fv.value = XID_UNCONTAINED THEN xids \cup {fv.entityId} ELSE xids

\* OnFieldValuesUpdate without the test of the entity group
RECURSIVE OnFieldValuesUpdateRunAnyEntity(_, _)
OnFieldValuesUpdateRunAnyEntity(xids, fvBuffer) ==
    IF fvBuffer = << >> THEN xids
    ELSE OnFieldValuesUpdateRunAnyEntity(
            IF Head(fvBuffer).fieldId = DCGM_FI_DEV_XID_ERRORS
               /\ Head(fvBuffer).value = XID_UNCONTAINED
            THEN xids \cup {Head(fvBuffer).entityId} ELSE xids,
            Tail(fvBuffer))

RECURSIVE OnFieldValuesUpdateRun(_, _)
OnFieldValuesUpdateRun(xids, fvBuffer) ==
    IF fvBuffer = << >> THEN xids
    ELSE LET fv == Head(fvBuffer)
             next == IF fv.entityGroupId # DCGM_FE_GPU THEN xids
                     ELSE IF fv.fieldId = DCGM_FI_DEV_XID_ERRORS THEN ProcessXidFv(xids, fv)
                     ELSE xids
         IN OnFieldValuesUpdateRun(next, Tail(fvBuffer))


(***************************************************************************)
(* m_mutex.  DcgmMutex and DcgmLockGuard are not part of this file: the    *)
(* lock is exclusive, an acquisition by the context that already holds it  *)
(* answers DCGM_MUTEX_ST_LOCKEDBYME without a second hold, and a guard     *)
(* releases at the end of its scope only what it acquired itself.          *)
(* m = [held, acquired, released, tr] is the mutex as the calling context  *)
(* sees it during one call: whether it holds the lock, how often the call  *)
(* acquired and released it, and the events of the call, each with         *)
(* whether the lock was held while it happened.                            *)
(***************************************************************************)
DCGM_MUTEX_ST_OK == "DCGM_MUTEX_ST_OK"
DCGM_MUTEX_ST_LOCKEDBYME == "DCGM_MUTEX_ST_LOCKEDBYME"

Mutex(held) == [held |-> held, acquired |-> 0, released |-> 0, tr |-> << >>]

Logged(m, ev) == [m EXCEPT !.tr = Append(@, [ev |-> ev, held |-> m.held])]

dcgm_mutex_lock(m) ==
    IF m.held THEN [st |-> DCGM_MUTEX_ST_LOCKEDBYME, m |-> Logged(m, "m_mutex.lock")]
    ELSE [st |-> DCGM_MUTEX_ST_OK,
          m |-> Logged([m EXCEPT !.held = TRUE, !.acquired = @ + 1], "m_mutex.lock")]

dcgm_mutex_unlock(m) ==
    Logged([m EXCEPT !.held = FALSE, !.released = @ + 1], "m_mutex.unlock")

\* the end of the scope of a DcgmLockGuard whose acquisition answered st
DcgmLockGuardEnd(st, m) == IF st = DCGM_MUTEX_ST_OK THEN dcgm_mutex_unlock(m) ELSE m

(***************************************************************************)
(* Where the calls take m_mutex.                                           *)
(***************************************************************************)
\* the access without the dcgm_mutex_unlock after it
UnderLockKept(m, ev) == Logged(dcgm_mutex_lock(m).m, ev)

\* dcgm_mutex_lock, one access to mGroupWatchState, dcgm_mutex_unlock
UnderLock(m, ev) == dcgm_mutex_unlock(Logged(dcgm_mutex_lock(m).m, ev))

\* an access in the scope of a DcgmLockGuard; l is what its acquisition gave
GuardScope(l, ev) == DcgmLockGuardEnd(l.st, Logged(l.m, ev))

UnderGuard(m, ev) == GuardScope(dcgm_mutex_lock(m), ev)

\* one event of SetWatches, MonitorWatches or MonitorWatchesForGpu: an access
\* to mGroupWatchState under the lock, the lookup of MonitorUncontainedErrors
\* under its guard, anything else as it is
EventLocking(m, e) ==
    IF e.ev \in {"mGroupWatchState.write", "mGroupWatchState.find"} THEN UnderLock(m, e.ev)
    ELSE IF e.ev = "m_gpuHadUncontainedErrorXid.find" THEN UnderGuard(m, e.ev)
    ELSE Logged(m, e.ev)

\* the events of the call, one after the other (first half, then second half)
RECURSIVE CallLocking(_, _)
CallLocking(m, tr) ==
    IF tr = << >> THEN m
    ELSE IF Len(tr) = 1 THEN EventLocking(m, tr[1])
    ELSE LET half == CallLocking(m, SubSeq(tr, 1, Len(tr) \div 2))
         IN IF half.held \in BOOLEAN   \* evaluates the first half first
            THEN CallLocking(half, SubSeq(tr, Len(tr) \div 2 + 1, Len(tr)))
            ELSE half

GetWatchesLocking(m, geRet) ==
    IF geRet # DCGM_ST_OK THEN Logged(m, "GetGroupEntities")
    ELSE UnderLock(Logged(m, "GetGroupEntities"), "mGroupWatchState.find")

OnGroupRemoveLocking(m) == UnderLock(m, "mGroupWatchState.erase")

ProcessXidFvLocking(m, fv) ==
    IF fv.value = XID_UNCONTAINED THEN UnderGuard(m, "m_gpuHadUncontainedErrorXid.insert")
    ELSE m

RECURSIVE FvLoopLocking(_, _)
FvLoopLocking(m, fvBuffer) ==
    IF fvBuffer = << >> THEN m
    ELSE FvLoopLocking(
            IF Head(fvBuffer).entityGroupId # DCGM_FE_GPU THEN m
            ELSE IF Head(fvBuffer).fieldId = DCGM_FI_DEV_XID_ERRORS
            THEN ProcessXidFvLocking(m, Head(fvBuffer))
            ELSE m,
            Tail(fvBuffer))

\* dcgm_mutex_unlock whatever the acquisition answered
OnFieldValuesUpdateEndAlways(mutexSt, m) == dcgm_mutex_unlock(m)

\* if (mutexSt != DCGM_MUTEX_ST_LOCKEDBYME) dcgm_mutex_unlock(m_mutex)
OnFieldValuesUpdateEnd(mutexSt, m) ==
    IF mutexSt # DCGM_MUTEX_ST_LOCKEDBYME THEN dcgm_mutex_unlock(m) ELSE m

\* l is what the acquisition at the start of OnFieldValuesUpdate gave
OnFieldValuesUpdateLocked(l, fvBuffer) ==
    OnFieldValuesUpdateEnd(l.st, FvLoopLocking(l.m, fvBuffer))

OnFieldValuesUpdateLocking(m, fvBuffer) ==
    OnFieldValuesUpdateLocked(dcgm_mutex_lock(m), fvBuffer)

(***************************************************************************)
(* Inputs of the calls and answers of the core proxy.                      *)
(***************************************************************************)
MaxFrameLen == 2
Now == 120000

Masks ==
    {0,
     DCGM_HEALTH_WATCH_PCIE + DCGM_HEALTH_WATCH_MEM,
     4095}

MonitorMasks == {DCGM_HEALTH_WATCH_MEM, 4095}

Intervals == {1000}
KeepAges == {600}

GroupStatuses == {DCGM_ST_OK, DCGM_ST_NOT_CONFIGURED}
RefreshStatuses == {DCGM_ST_OK, DCGM_ST_TIMEOUT}

\* the subscription that fails in a run, if one does
Faults ==
    {NoFault}
    \cup {[key |-> k, st |-> DCGM_ST_GENERIC_ERROR] :
            k \in {WatchKey(DCGM_FE_GPU, 0, DCGM_FI_DEV_PCIE_REPLAY_COUNTER),
                   WatchKey(DCGM_FE_CPU, 0, DCGM_FI_DEV_CPU_TEMP_CURRENT)}}

GpuIds == {0, 1, DCGM_MAX_NUM_DEVICES - 1, DCGM_MAX_NUM_DEVICES, DCGM_MAX_NUM_DEVICES + 1}

Windows == {[startTime |-> 0, endTime |-> 0]}

\* what the sample store answers: dflt to every query but the one of key
Px(dflt, key, resp, linkRet, linkDown) ==
    [dflt |-> dflt, key |-> key, resp |-> resp, linkRet |-> linkRet, linkDown |-> linkDown,
     now |-> Now]

NoKey == <<"", 0, "", "">>

PxKeys ==
    {<<DCGM_FE_GPU, 0, DCGM_FI_DEV_PCIE_REPLAY_COUNTER, "ASC">>,
     <<DCGM_FE_GPU, 0, DCGM_FI_DEV_THERMAL_VIOLATION, "ASC">>,
     <<DCGM_FE_GPU, 0, DCGM_FI_DEV_RETIRED_SBE, "DESC">>,
     <<DCGM_FE_GPU, 0, DCGM_FI_DEV_NVLINK_REPLAY_ERROR_COUNT_TOTAL, "DESC">>,
     <<DCGM_FE_CPU, 0, DCGM_FI_DEV_CPU_TEMP_CURRENT, "LATEST">>}

PxResps ==
    {Resp(DCGM_ST_NOT_WATCHED, 0), Resp(DCGM_ST_NO_DATA, 0), Resp(DCGM_ST_GENERIC_ERROR, 0),
     Resp(DCGM_ST_OK, DCGM_INT64_BLANK)}

PxPlain == Px(Resp(DCGM_ST_OK, 1), NoKey, Resp(DCGM_ST_OK, 1), DCGM_ST_OK, {})

PxSet ==
    {PxPlain}
    \cup {Px(Resp(DCGM_ST_OK, 1), k, r, DCGM_ST_OK, {}) : k \in PxKeys, r \in PxResps}

\* answers that put the evaluators at their thresholds: every query answers
\* success with value px[1] but the query px[2], which answers px[3]
PxAt(dflt, key, resp) == Px(Resp(DCGM_ST_OK, dflt), key, resp, DCGM_ST_OK, {})

PxEval ==
    {PxAt(d, NoKey, Resp(DCGM_ST_OK, d)) : d \in {0, 15, 16, 29, 30}}
    \cup {PxAt(d, <<DCGM_FE_GPU, 0, DCGM_FI_DEV_PCIE_REPLAY_COUNTER, "DESC">>, Resp(DCGM_ST_OK, v)) :
            d \in {0, 20}, v \in {8, 9, 11, 12, 28, 29, DCGM_INT64_BLANK}}
    \* differences of 2^15 - 1, 2^15 and 2^16 + 4, around the width of int
    \cup {PxAt(0, <<DCGM_FE_GPU, 0, DCGM_FI_DEV_PCIE_REPLAY_COUNTER, "DESC">>, Resp(DCGM_ST_OK, v)) :
            v \in {32767, 32768, 65540}}
    \cup {PxAt(0, <<DCGM_FE_GPU, 0, DCGM_FI_DEV_ECC_DBE_VOL_TOTAL, "DESC">>, r) :
            r \in {Resp(DCGM_ST_OK, 0), Resp(DCGM_ST_OK, 1), Resp(DCGM_ST_OK, 5),
                   Resp(DCGM_ST_OK, 65537), Resp(DCGM_ST_OK, DCGM_INT64_BLANK),
                   Resp(DCGM_ST_NO_DATA, 0)}}
    \cup {PxAt(0, <<DCGM_FE_GPU, 0, f, "DESC">>, Resp(DCGM_ST_OK, v)) :
            f \in {DCGM_FI_DEV_RETIRED_DBE, DCGM_FI_DEV_RETIRED_SBE}, v \in {59, 60, 61}}
    \cup {PxAt(d, <<DCGM_FE_GPU, 0, DCGM_FI_DEV_RETIRED_SBE, "DESC">>,
               Resp(DCGM_ST_OK, DCGM_INT64_BLANK)) : d \in {30, 60}}
    \cup {PxAt(d, <<DCGM_FE_GPU, 0, DCGM_FI_DEV_RETIRED_DBE, "DESC">>, Resp(DCGM_ST_OK, 16)) :
            d \in {13, 14, 15}}
    \cup {PxAt(20, <<DCGM_FE_GPU, 0, DCGM_FI_DEV_RETIRED_DBE, "WEEK">>, r) :
            r \in {Resp(DCGM_ST_OK, 18), Resp(DCGM_ST_OK, 19), Resp(DCGM_ST_OK, 20),
                   Resp(DCGM_ST_OK, 21), Resp(DCGM_ST_OK, DCGM_INT64_BLANK),
                   Resp(DCGM_ST_NO_DATA, 0), Resp(DCGM_ST_GENERIC_ERROR, 0)}}
    \cup {PxAt(0, <<DCGM_FE_GPU, 0, f, "DESC">>, Resp(DCGM_ST_OK, v)) :
            f \in {DCGM_FI_DEV_NVLINK_CRC_FLIT_ERROR_COUNT_TOTAL,
                   DCGM_FI_DEV_NVLINK_CRC_DATA_ERROR_COUNT_TOTAL,
                   DCGM_FI_DEV_NVLINK_REPLAY_ERROR_COUNT_TOTAL,
                   DCGM_FI_DEV_NVLINK_RECOVERY_ERROR_COUNT_TOTAL},
            v \in {0, 1, 5999, 6000, 6001, DCGM_INT64_BLANK}}
    \cup {PxAt(0, <<DCGM_FE_SWITCH, 0, f, "DESC">>, r) :
            f \in {DCGM_FI_DEV_NVSWITCH_NON_FATAL_ERRORS, DCGM_FI_DEV_NVSWITCH_FATAL_ERRORS},
            r \in {Resp(DCGM_ST_OK, 0), Resp(DCGM_ST_OK, 3), Resp(DCGM_ST_OK, DCGM_INT64_BLANK),
                   Resp(DCGM_ST_GENERIC_ERROR, 0), Resp(DCGM_ST_NO_DATA, 0)}}

FvSet ==
    {Fv(DCGM_FE_GPU, 0, DCGM_FI_DEV_XID_ERRORS, XID_UNCONTAINED),
     Fv(DCGM_FE_GPU, 1, DCGM_FI_DEV_XID_ERRORS, XID_UNCONTAINED),
     Fv(DCGM_FE_GPU, 1, DCGM_FI_DEV_XID_ERRORS, 43),
     Fv(DCGM_FE_GPU, 1, DCGM_FI_DEV_THERMAL_VIOLATION, XID_UNCONTAINED),
     Fv(DCGM_FE_SWITCH, 1, DCGM_FI_DEV_XID_ERRORS, XID_UNCONTAINED)}

\* the updates that flag no device but GPU 0
FvSetOne == FvSet \ {Fv(DCGM_FE_GPU, 1, DCGM_FI_DEV_XID_ERRORS, XID_UNCONTAINED)}

Frames(fvs) == UNION {[1 .. n -> fvs] : n \in 0 .. MaxFrameLen}

(***************************************************************************)
(* The state machine.                                                      *)
(***************************************************************************)
Init ==
    /\ mGroupWatchState = << >>
    /\ m_gpuHadUncontainedErrorXid = {}
    /\ watches = {}
    /\ last = NoCall

Idle == last.op = "none"

\* the subscriptions a run added to the core's table
Subscribed(calls) ==
    {WatchKey(calls[i].entityGroupId, calls[i].entityId, calls[i].fieldId) :
        i \in {j \in 1 .. Len(calls) : calls[j].ret = DCGM_ST_OK}}

\* r is what the run of SetWatches did
SetWatchesDone(groupId, systems, updateInterval, maxKeepAge, geRet, fx, refreshRet, r) ==
    /\ mGroupWatchState' = IF r.stored THEN StoreMask(mGroupWatchState, groupId, systems)
                           ELSE mGroupWatchState
    /\ watches' = watches \cup Subscribed(r.calls)
    /\ last' = [op |-> "SetWatches", groupId |-> groupId, systems |-> systems,
                updateInterval |-> updateInterval, maxKeepAge |-> maxKeepAge,
                geRet |-> geRet, fx |-> fx, refreshRet |-> refreshRet,
                ret |-> r.ret, calls |-> r.calls, tr |-> r.tr,
                before |-> mGroupWatchState]

SetWatches(groupId, systems, updateInterval, maxKeepAge, geRet, fx, refreshRet) ==
    /\ Idle
    /\ SetWatchesDone(groupId, systems, updateInterval, maxKeepAge, geRet, fx, refreshRet,
                      SetWatchesRun(groupId, systems, updateInterval, maxKeepAge, geRet, fx,
                                    refreshRet))
    /\ UNCHANGED m_gpuHadUncontainedErrorXid

\* the call that returned just before this one: what it was and on which group
Brief(l) ==
    IF l.op = "SetWatches"
    THEN [op |-> l.op, groupId |-> l.groupId, systems |-> l.systems, ret |-> l.geRet]
    ELSE IF l.op = "OnGroupRemove"
    THEN [op |-> l.op, groupId |-> l.groupId, systems |-> l.erased, ret |-> DCGM_ST_OK]
    ELSE [op |-> l.op, groupId |-> 0, systems |-> 0, ret |-> DCGM_ST_OK]

GetWatchesDone(groupId, geRet, r) ==
    last' = [op |-> "GetWatches", groupId |-> groupId, geRet |-> geRet,
             ret |-> r.ret, systems |-> r.systems, after |-> Brief(last)]

GetWatches(groupId, geRet) ==
    /\ GetWatchesDone(groupId, geRet, GetWatchesRun(mGroupWatchState, groupId, geRet))
    /\ UNCHANGED <<mGroupWatchState, m_gpuHadUncontainedErrorXid, watches>>

MonitorWatchesDone(groupId, w, geRet, px, r) ==
    last' = [op |-> "MonitorWatches", groupId |-> groupId, startTime |-> w.startTime,
             endTime |-> w.endTime, geRet |-> geRet, px |-> px,
             mask |-> IF groupId \in DOMAIN mGroupWatchState THEN mGroupWatchState[groupId]
                      ELSE Unset,
             ret |-> r.ret, inc |-> r.inc, tr |-> r.tr]

MonitorWatchesCall(groupId, w, geRet, px) ==
    /\ Idle
    /\ MonitorWatchesDone(groupId, w, geRet, px,
                          MonitorWatches(px, m_gpuHadUncontainedErrorXid, mGroupWatchState,
                                         groupId, w.startTime, w.endTime, geRet))
    /\ UNCHANGED <<mGroupWatchState, m_gpuHadUncontainedErrorXid, watches>>

MonitorWatchesForGpuDone(gpuId, w, healthSystemsMask, px, r) ==
    last' = [op |-> "MonitorWatchesForGpu", gpuId |-> gpuId, startTime |-> w.startTime,
             endTime |-> w.endTime, healthSystemsMask |-> healthSystemsMask, px |-> px,
             ret |-> r.ret, inc |-> r.inc, tr |-> r.tr]

MonitorWatchesForGpu(gpuId, w, healthSystemsMask, px) ==
    /\ Idle
    /\ MonitorWatchesForGpuDone(gpuId, w, healthSystemsMask, px,
                                MonitorWatchesForGpuRun(px, m_gpuHadUncontainedErrorXid, gpuId,
                                                        w.startTime, w.endTime, healthSystemsMask))
    /\ UNCHANGED <<mGroupWatchState, m_gpuHadUncontainedErrorXid, watches>>

OnGroupRemove(groupId) ==
    /\ Idle
    /\ mGroupWatchState' = EraseGroup(mGroupWatchState, groupId)
    /\ last' = [op |-> "OnGroupRemove", groupId |-> groupId,
                erased |-> IF groupId \in DOMAIN mGroupWatchState
                           THEN mGroupWatchState[groupId] ELSE Unset]
    /\ UNCHANGED <<m_gpuHadUncontainedErrorXid, watches>>

\* held: whether the calling context holds m_mutex when it makes the call
OnFieldValuesUpdate(fvBuffer, held) ==
    /\ Idle
    /\ m_gpuHadUncontainedErrorXid' = OnFieldValuesUpdateRun(m_gpuHadUncontainedErrorXid, fvBuffer)
    /\ last' = [op |-> "OnFieldValuesUpdate", fvBuffer |-> fvBuffer, held |-> held,
                lk |-> OnFieldValuesUpdateLocking(Mutex(held), fvBuffer)]
    /\ UNCHANGED <<mGroupWatchState, watches>>

\* the caller takes the result of the call
Return ==
    /\ ~Idle
    /\ last' = NoCall
    /\ UNCHANGED <<mGroupWatchState, m_gpuHadUncontainedErrorXid, watches>>

\* one call or one return, with the arguments and the proxy's answers drawn
\* from the given sets
Step(masks, faults, resolves, refreshes, pxs, fvs) ==
    \/ \E groupId \in GroupIds, systems \in masks, updateInterval \in Intervals,
          maxKeepAge \in KeepAges, geRet \in resolves, fx \in faults, refreshRet \in refreshes :
          SetWatches(groupId, systems, updateInterval, maxKeepAge, geRet, fx, refreshRet)
    \/ \E groupId \in GroupIds, geRet \in GroupStatuses : GetWatches(groupId, geRet)
    \/ \E groupId \in GroupIds, w \in Windows, geRet \in GroupStatuses, px \in pxs :
          MonitorWatchesCall(groupId, w, geRet, px)
    \/ \E gpuId \in GpuIds, w \in Windows, healthSystemsMask \in MonitorMasks, px \in pxs :
          MonitorWatchesForGpu(gpuId, w, healthSystemsMask, px)
    \/ \E groupId \in GroupIds : OnGroupRemove(groupId)
    \/ \E fvBuffer \in Frames(fvs) : OnFieldValuesUpdate(fvBuffer, FALSE)
    \/ Return

\* the registry and the installers under every mask, fault and status;
\* the sample store answers the same to every query
Next == Step(Masks, Faults, GroupStatuses, RefreshStatuses, {PxPlain}, FvSetOne)

Spec == Init /\ [][Next]_vars

\* the evaluators under every answer of the sample store; the installers
\* never fail and the groups watch all or nothing
NextMonitor == Step({0, 4095}, {NoFault}, {DCGM_ST_OK}, {DCGM_ST_OK}, PxSet, FvSet)

SpecMonitor == Init /\ [][NextMonitor]_vars

\* the evaluators at their thresholds; the groups watch everything or nothing
NextEval ==
    Step({4095}, {NoFault}, {DCGM_ST_OK}, {DCGM_ST_OK}, PxEval,
         {Fv(DCGM_FE_GPU, 0, DCGM_FI_DEV_XID_ERRORS, XID_UNCONTAINED)})

SpecEval == Init /\ [][NextEval]_vars

\* the installers under a failure of each of their subscriptions, with the
\* caller's interval and retention below and above the floors
InstallFaults ==
    {NoFault}
    \cup {[key |-> WatchKey(DCGM_FE_GPU, 0, f), st |-> DCGM_ST_GENERIC_ERROR] :
            f \in {DCGM_FI_DEV_ECC_DBE_VOL_TOTAL, DCGM_FI_DEV_RETIRED_DBE,
                   DCGM_FI_DEV_ROW_REMAP_FAILURE,
                   DCGM_FI_DEV_NVLINK_CRC_DATA_ERROR_COUNT_TOTAL,
                   DCGM_FI_DEV_NVLINK_RECOVERY_ERROR_COUNT_TOTAL}}
    \cup {[key |-> k, st |-> DCGM_ST_TIMEOUT] :
            k \in {WatchKey(DCGM_FE_GPU_I, 1, DCGM_FI_DEV_POWER_USAGE),
                   WatchKey(DCGM_FE_CPU, 0, DCGM_FI_DEV_CPU_TEMP_WARNING),
                   WatchKey(DCGM_FE_SWITCH, 0, DCGM_FI_DEV_NVSWITCH_FATAL_ERRORS)}}

InstallTimings ==
    {[updateInterval |-> 1000, maxKeepAge |-> 600],
     [updateInterval |-> 30000, maxKeepAge |-> 7200],
     [updateInterval |-> 4000000, maxKeepAge |-> 10000]}

NextInstall ==
    \/ \E groupId \in GroupIds, t \in InstallTimings, geRet \in GroupStatuses,
          fx \in InstallFaults, refreshRet \in RefreshStatuses :
          SetWatches(groupId, 4095, t.updateInterval, t.maxKeepAge, geRet, fx, refreshRet)
    \/ \E groupId \in GroupIds : GetWatches(groupId, DCGM_ST_OK)
    \/ \E groupId \in GroupIds, w \in Windows : MonitorWatchesCall(groupId, w, DCGM_ST_OK, PxPlain)
    \/ \E w \in Windows : MonitorWatchesForGpu(0, w, DCGM_HEALTH_WATCH_MEM, PxPlain)
    \/ \E groupId \in GroupIds : OnGroupRemove(groupId)
    \/ OnFieldValuesUpdate(<<Fv(DCGM_FE_GPU, 0, DCGM_FI_DEV_XID_ERRORS, XID_UNCONTAINED)>>, FALSE)
    \/ Return

SpecInstall == Init /\ [][NextInstall]_vars

\* the dispatch of MonitorWatches under partial masks: one category, both
\* switch categories, a few categories, only bits without an evaluator
RouteMasks ==
    {DCGM_HEALTH_WATCH_NVSWITCH_NONFATAL,
     DCGM_HEALTH_WATCH_NVSWITCH_FATAL,
     DCGM_HEALTH_WATCH_NVSWITCH_NONFATAL + DCGM_HEALTH_WATCH_NVSWITCH_FATAL,
     DCGM_HEALTH_WATCH_PCIE + DCGM_HEALTH_WATCH_THERMAL,
     DCGM_HEALTH_WATCH_NVLINK + DCGM_HEALTH_WATCH_MEM + DCGM_HEALTH_WATCH_INFOROM
        + DCGM_HEALTH_WATCH_POWER,
     4 + 8 + 32 + 512,
     4095}

\* answers under which every category has incidents, links are down, and
\* the sub-checks of MonitorMem fail with different statuses
PxRoute ==
    {PxPlain,
     Px(Resp(DCGM_ST_OK, 0), NoKey, Resp(DCGM_ST_OK, 0), DCGM_ST_OK, {0, 2}),
     Px(Resp(DCGM_ST_OK, 1), NoKey, Resp(DCGM_ST_OK, 1), DCGM_ST_OK, {5}),
     Px(Resp(DCGM_ST_OK, 1), NoKey, Resp(DCGM_ST_OK, 1), DCGM_ST_GENERIC_ERROR, {5}),
     PxAt(0, <<DCGM_FE_GPU_I, 1, DCGM_FI_DEV_PCIE_REPLAY_COUNTER, "DESC">>, Resp(DCGM_ST_OK, 9)),
     PxAt(0, <<DCGM_FE_GPU, 1, DCGM_FI_DEV_THERMAL_VIOLATION, "LATEST">>, Resp(DCGM_ST_OK, 1)),
     PxAt(0, <<DCGM_FE_GPU_I, 1, DCGM_FI_DEV_POWER_VIOLATION, "DESC">>, Resp(DCGM_ST_OK, 1))}
    \cup {Px(Resp(DCGM_ST_GENERIC_ERROR, 0), <<DCGM_FE_GPU, 0, f, "DESC">>,
             Resp(DCGM_ST_TIMEOUT, 0), DCGM_ST_OK, {}) :
            f \in {DCGM_FI_DEV_ECC_DBE_VOL_TOTAL, DCGM_FI_DEV_ROW_REMAP_FAILURE}}
    \cup {PxAt(1, <<DCGM_FE_GPU, 0, f, "DESC">>, Resp(DCGM_ST_TIMEOUT, 0)) :
            f \in {DCGM_FI_DEV_ECC_DBE_VOL_TOTAL, DCGM_FI_DEV_RETIRED_PENDING,
                   DCGM_FI_DEV_RETIRED_DBE}}

NextRoute ==
    \/ \E systems \in RouteMasks :
          SetWatches(1, systems, 1000, 600, DCGM_ST_OK, NoFault, DCGM_ST_OK)
    \/ GetWatches(1, DCGM_ST_OK)
    \/ \E w \in Windows, px \in PxRoute : MonitorWatchesCall(1, w, DCGM_ST_OK, px)
    \/ \E w \in Windows, px \in PxRoute : MonitorWatchesForGpu(0, w, DCGM_HEALTH_WATCH_MEM, px)
    \/ OnGroupRemove(1)
    \/ OnFieldValuesUpdate(<<Fv(DCGM_FE_GPU, 0, DCGM_FI_DEV_XID_ERRORS, XID_UNCONTAINED)>>, FALSE)
    \/ Return

SpecRoute == Init /\ [][NextRoute]_vars

\* the calls as they take m_mutex; event ingestion is called by a context
\* that holds the lock and by one that does not
NextLock ==
    \/ \E groupId \in GroupIds, systems \in Masks, geRet \in GroupStatuses :
          SetWatches(groupId, systems, 1000, 600, geRet, NoFault, DCGM_ST_OK)
    \/ \E groupId \in GroupIds, geRet \in GroupStatuses : GetWatches(groupId, geRet)
    \/ \E groupId \in GroupIds, w \in Windows, geRet \in GroupStatuses :
          MonitorWatchesCall(groupId, w, geRet, PxPlain)
    \/ \E gpuId \in {0, 1}, w \in Windows, healthSystemsMask \in MonitorMasks :
          MonitorWatchesForGpu(gpuId, w, healthSystemsMask, PxPlain)
    \/ \E groupId \in GroupIds : OnGroupRemove(groupId)
    \/ \E fvBuffer \in Frames(FvSet), held \in BOOLEAN : OnFieldValuesUpdate(fvBuffer, held)
    \/ Return

SpecLock == Init /\ [][NextLock]_vars

(***************************************************************************)
(* Properties.  last is the call that has just returned; the state is the  *)
(* one it left.                                                            *)
(***************************************************************************)
\* the positions of the events of tr that satisfy P
Where(tr, P(_)) == {i \in 1 .. Len(tr) : P(tr[i])}

IsEvaluator(e) == e.ev = "Evaluator"
IsSampleStoreCall(e) ==
    e.ev \in {"GetSamples", "GetLatestSample", "GetEntityNvLinkLinkStatus"}

\* a GetWatches of a group that comes right after the named call on that group,
\* the group's entities resolving in both
GetWatchesAfter(op) ==
    /\ last.op = "GetWatches"
    /\ last.after.op = op
    /\ last.after.groupId = last.groupId

\* C1: for a group whose entities resolve, a GetWatches issued right after
\* SetWatches(groupId, mask) has returned gives success and exactly mask,
\* for every mask and whatever status the installers and the refresh gave.
C1_GetWatchesAfterSetWatches ==
    (GetWatchesAfter("SetWatches") /\ last.after.ret = DCGM_ST_OK /\ last.geRet = DCGM_ST_OK)
    => (last.ret = DCGM_ST_OK /\ last.systems = last.after.systems)

\* a GetWatches reads back a mask that replaced the full mask of the group
C1_Witness ==
    /\ GetWatchesAfter("SetWatches")
    /\ last.after.ret = DCGM_ST_OK
    /\ last.geRet = DCGM_ST_OK
    /\ last.groupId = 1
    /\ last.systems = DCGM_HEALTH_WATCH_PCIE + DCGM_HEALTH_WATCH_MEM
    /\ last.systems = mGroupWatchState[1]
    /\ 2 \in DOMAIN mGroupWatchState

\* C2: the registry is a function from groups to one mask each, and a
\* SetWatches that resolved its group leaves exactly its mask for the group
\* (not merged with the mask stored before) and every other group's entry
\* as it was.
C2_SetWatchesOverwrites ==
    /\ DOMAIN mGroupWatchState \subseteq GroupIds
    /\ \A g \in DOMAIN mGroupWatchState : mGroupWatchState[g] \in 0 .. 4095
    /\ (last.op = "SetWatches" /\ last.geRet = DCGM_ST_OK)
       => /\ DOMAIN mGroupWatchState = DOMAIN last.before \cup {last.groupId}
          /\ mGroupWatchState[last.groupId] = last.systems
          /\ \A g \in DOMAIN last.before \ {last.groupId} :
                mGroupWatchState[g] = last.before[g]

\* the full mask of group 1 is replaced by a smaller one while group 2 holds a mask
C2_Witness ==
    /\ last.op = "SetWatches"
    /\ last.geRet = DCGM_ST_OK
    /\ last.groupId = 1
    /\ 1 \in DOMAIN last.before
    /\ last.before[1] = 4095
    /\ last.systems = DCGM_HEALTH_WATCH_PCIE + DCGM_HEALTH_WATCH_MEM
    /\ 2 \in DOMAIN last.before
    /\ last.before[2] = 4095

\* C3 as stated: after OnGroupRemove(groupId), a following GetWatches(groupId)
\* returns mask 0 and no error status, whatever mask was stored before.
C3_Original ==
    GetWatchesAfter("OnGroupRemove")
    => (last.ret = DCGM_ST_OK /\ last.systems = 0)

\* C3 amended: after OnGroupRemove(groupId), a following GetWatches(groupId)
\* for which the group's entities still resolve returns mask 0 and success,
\* whatever mask was stored before; when they do not resolve it returns the
\* status of the resolution and no mask.
C3_GetWatchesAfterRemove ==
    GetWatchesAfter("OnGroupRemove")
    => /\ last.geRet = DCGM_ST_OK => (last.ret = DCGM_ST_OK /\ last.systems = 0)
       /\ last.geRet # DCGM_ST_OK => (last.ret = last.geRet /\ last.systems = Unset)

\* a group that held the full mask is removed and read back
C3_Witness ==
    /\ GetWatchesAfter("OnGroupRemove")
    /\ last.after.systems = 4095
    /\ last.geRet = DCGM_ST_OK
    /\ last.systems = 0

\* the incidents and evaluators of a MonitorWatches call
NoEvaluation ==
    /\ last.inc = << >>
    /\ Where(last.tr, IsEvaluator) = {}
    /\ Where(last.tr, IsSampleStoreCall) = {}

\* C4 as stated: for every group whose stored mask is 0 or that has no
\* entry, MonitorWatches returns success, appends no incident and invokes no
\* evaluator.
C4_Original ==
    (last.op = "MonitorWatches" /\ last.mask \in {0, Unset})
    => (last.ret = DCGM_ST_OK /\ NoEvaluation)

\* C4 amended: for every group whose stored mask is 0 or that has no entry,
\* MonitorWatches appends no incident and invokes no evaluator, whatever the
\* group contains and whatever devices are flagged; it returns success when
\* the group's entities resolve and the status of the resolution otherwise.
C4_MonitorWatchesNoMask ==
    (last.op = "MonitorWatches" /\ last.mask \in {0, Unset})
    => /\ NoEvaluation
       /\ last.ret = last.geRet

\* a removed group with GPUs is monitored while a device is flagged
C4_Witness ==
    /\ last.op = "MonitorWatches"
    /\ last.groupId = 1
    /\ last.mask = Unset
    /\ last.geRet = DCGM_ST_OK
    /\ 0 \in m_gpuHadUncontainedErrorXid
    /\ 2 \in DOMAIN mGroupWatchState

\* what a MonitorWatchesForGpu call with an id out of range has left
OutOfRangeCall ==
    (last.op = "MonitorWatchesForGpu" /\ last.gpuId >= DCGM_MAX_NUM_DEVICES)
    => (last.ret = DCGM_ST_BADPARAM /\ last.inc = << >> /\ last.tr = << >>)

OutOfRangeStep ==
    (last'.op = "MonitorWatchesForGpu" /\ last' # last /\ last'.gpuId >= DCGM_MAX_NUM_DEVICES)
    => UNCHANGED <<mGroupWatchState, m_gpuHadUncontainedErrorXid, watches>>

\* C5: MonitorWatchesForGpu with an id >= DCGM_MAX_NUM_DEVICES returns
\* DCGM_ST_BADPARAM having made no sample-store call, appended no incident,
\* and neither read nor changed the registry, the flagged devices or the
\* subscriptions, for every mask.
C5_OutOfRangeGpuId == []OutOfRangeCall /\ [][OutOfRangeStep]_vars

\* the first id out of range, with every bit set and a device flagged
C5_Witness ==
    /\ last.op = "MonitorWatchesForGpu"
    /\ last.gpuId = DCGM_MAX_NUM_DEVICES
    /\ last.healthSystemsMask = 4095
    /\ last.ret = DCGM_ST_BADPARAM
    /\ m_gpuHadUncontainedErrorXid # {}

IsMonitorCall == last.op \in {"MonitorWatches", "MonitorWatchesForGpu"}

IsMemoryEvaluation(e) == e.ev = "Evaluator" /\ e.what = "MonitorMem"
IsFlagLookup(e) == e.ev = "m_gpuHadUncontainedErrorXid.find"

\* the incidents for an uncontained error of the entity
UncontainedIncidents(inc, eg, eid) ==
    {i \in 1 .. Len(inc) : /\ inc[i].code = "DCGM_FR_UNCONTAINED_ERROR"
                           /\ inc[i].entityGroupId = eg
                           /\ inc[i].entityId = eid}

\* the devices for which a frame carries the fatal code
FatalDevices(fvBuffer) ==
    {fvBuffer[i].entityId :
        i \in {j \in 1 .. Len(fvBuffer) : /\ fvBuffer[j].entityGroupId = DCGM_FE_GPU
                                           /\ fvBuffer[j].fieldId = DCGM_FI_DEV_XID_ERRORS
                                           /\ fvBuffer[j].value = XID_UNCONTAINED}}

\* every Memory evaluation of a GPU has one FAIL for the uncontained error when
\* the GPU is flagged and none otherwise; the flag is looked up for GPUs only
\* and no such incident names a switch
FlagEvaluated ==
    IsMonitorCall
    => /\ \A i \in Where(last.tr, IsMemoryEvaluation) :
            last.tr[i].eg = DCGM_FE_GPU
            => Cardinality(UncontainedIncidents(last.inc, DCGM_FE_GPU, last.tr[i].eid))
               = IF last.tr[i].eid \in m_gpuHadUncontainedErrorXid THEN 1 ELSE 0
       /\ \A i \in Where(last.tr, IsFlagLookup) : last.tr[i].eg = DCGM_FE_GPU
       /\ \A i \in 1 .. Len(last.inc) :
            last.inc[i].code = "DCGM_FR_UNCONTAINED_ERROR"
            => /\ last.inc[i].entityGroupId = DCGM_FE_GPU
               /\ last.inc[i].health = DCGM_HEALTH_RESULT_FAIL

\* the flagged devices are those for which the fatal code was ingested
FlagIngested ==
    /\ m_gpuHadUncontainedErrorXid \subseteq m_gpuHadUncontainedErrorXid'
    /\ (last.op = "none" /\ last'.op = "OnFieldValuesUpdate")
       => m_gpuHadUncontainedErrorXid'
          = m_gpuHadUncontainedErrorXid \cup FatalDevices(last'.fvBuffer)
    /\ (last'.op # "OnFieldValuesUpdate" \/ last.op # "none")
       => m_gpuHadUncontainedErrorXid' = m_gpuHadUncontainedErrorXid

\* C6: once the fatal code has been ingested for GPU d (and only then), every
\* Memory evaluation of GPU d appends exactly one FAIL incident for the
\* uncontained error; a GPU never ingested gets none; the flag is never looked
\* up for a switch, even one whose id is that of a flagged GPU.
C6_UncontainedErrorFlag == []FlagEvaluated /\ [][FlagIngested]_vars

\* group 1 is monitored with GPU 0 flagged and GPU 1 not: one incident for
\* GPU 0, none for GPU 1, and switch 0 evaluated
C6_Witness ==
    /\ last.op = "MonitorWatches"
    /\ last.groupId = 1
    /\ m_gpuHadUncontainedErrorXid = {0}
    /\ Cardinality(UncontainedIncidents(last.inc, DCGM_FE_GPU, 0)) = 1
    /\ UncontainedIncidents(last.inc, DCGM_FE_GPU, 1) = {}
    /\ \E i \in Where(last.tr, IsMemoryEvaluation) :
          last.tr[i].eg = DCGM_FE_GPU /\ last.tr[i].eid = 1
    /\ \E i \in Where(last.tr, IsEvaluator) :
          last.tr[i].eg = DCGM_FE_SWITCH /\ last.tr[i].eid = 0

\* the statuses a run of SetWatches observed: installers, switch installer, refresh
IsRunStatus(e) ==
    e.ev \in {"Installer(enable)", "Installer(disable)", "SetNvSwitchWatches", "UpdateAllFields"}

\* the last status that is not success among them, success when there is none
LastNonSuccess(tr) ==
    LET failed == SelectSeq(tr, LAMBDA e : IsRunStatus(e) /\ e.ret # DCGM_ST_OK)
    IN IF failed = << >> THEN DCGM_ST_OK ELSE failed[Len(failed)].ret

\* C7: SetWatches returns the last status that is not success among those of
\* the installers, the switch installer and the refresh, in execution order;
\* it does not return success when an installer of a device or CPU failed.
C7_LastFailureReturned ==
    (last.op = "SetWatches" /\ last.geRet = DCGM_ST_OK)
    => last.ret = LastNonSuccess(last.tr)

\* the events of the evaluator invoked at position i of tr
EvaluatorRun(tr, i) ==
    {j \in i + 1 .. Len(tr) : \A k \in i + 1 .. j : ~IsEvaluator(tr[k])}

IsAbsence(st) == st = DCGM_ST_NO_DATA \/ st = DCGM_ST_NOT_WATCHED

\* C8: expected absence is not surfaced as an error: an evaluator whose
\* sample-store queries were answered with success, NO_DATA or NOT_WATCHED
\* only, one of them at least with NO_DATA or NOT_WATCHED, returns success.
C8_AbsenceIsNotAnError ==
    IsMonitorCall
    => \A i \in Where(last.tr, IsEvaluator) :
          (/\ \E j \in EvaluatorRun(last.tr, i) : IsAbsence(last.tr[j].ret)
           /\ \A j \in EvaluatorRun(last.tr, i) : Expected(last.tr[j].ret))
          => last.tr[i].ret = DCGM_ST_OK

\* C9: when some evaluator run by MonitorWatches returned a status other than
\* success, NO_DATA and NOT_WATCHED, MonitorWatches does not return success,
\* whatever is evaluated afterwards.
C9_UpstreamFailurePropagated ==
    (last.op = "MonitorWatches"
     /\ \E i \in Where(last.tr, IsEvaluator) : ~Expected(last.tr[i].ret))
    => last.ret # DCGM_ST_OK

IsDisable(e) == e.ev = "Installer(disable)"

\* an installer called with enable = false returns success and is followed by
\* no subscription
DisableIsNoOp ==
    last.op = "SetWatches"
    => \A i \in Where(last.tr, IsDisable) :
          /\ last.tr[i].ret = DCGM_ST_OK
          /\ i < Len(last.tr) => last.tr[i + 1].ev # "AddFieldWatch"

\* C10: an installer called with enable = false returns success without a
\* subscription, and no operation removes a subscription: every subscription
\* installed stays installed.
C10_SubscriptionsOnlyGrow == []DisableIsNoOp /\ [][watches \subseteq watches']_vars

\* SetWatches with mask 0 on a group that watched everything: every installer
\* is called with enable = false and the subscriptions are still there
C10_Witness ==
    /\ last.op = "SetWatches"
    /\ last.groupId = 1
    /\ last.systems = 0
    /\ 1 \in DOMAIN last.before
    /\ last.before[1] = 4095
    /\ Where(last.tr, IsDisable) # {}
    /\ last.calls = << >>
    /\ WatchKey(DCGM_FE_GPU, 0, DCGM_FI_DEV_PCIE_REPLAY_COUNTER) \in watches
    /\ WatchKey(DCGM_FE_CPU, 0, DCGM_FI_DEV_CPU_TEMP_CURRENT) \in watches
    /\ WatchKey(DCGM_FE_SWITCH, 0, DCGM_FI_DEV_NVSWITCH_FATAL_ERRORS) \in watches

(***************************************************************************)
(* The evaluators at their thresholds                                      *)
(***************************************************************************)
\* the positions in the events of the last call where evaluator name starts
RunsOf(name) ==
    {i \in 1 .. Len(last.tr) : last.tr[i].ev = "Evaluator" /\ last.tr[i].what = name}

\* the incidents of the last call for an entity, by health system and by code
SystemIncidents(eg, eid, system) ==
    {k \in 1 .. Len(last.inc) : /\ last.inc[k].entityGroupId = eg
                                /\ last.inc[k].entityId = eid
                                /\ last.inc[k].system = system}

CodeIncidents(eg, eid, code) ==
    {k \in 1 .. Len(last.inc) : /\ last.inc[k].entityGroupId = eg
                                /\ last.inc[k].entityId = eid
                                /\ last.inc[k].code = code}

Present(a) == a.st = DCGM_ST_OK /\ ~DCGM_INT64_IS_BLANK(a.v)

\* the PCIe evaluation of an entity whose earliest and latest replay-counter
\* samples are there and differ by diff
PcieEvaluated(eg, eid, diff) ==
    /\ IsMonitorCall
    /\ \E i \in RunsOf("MonitorPcie") : last.tr[i].eg = eg /\ last.tr[i].eid = eid
    /\ Present(Answer(last.px, eg, eid, DCGM_FI_DEV_PCIE_REPLAY_COUNTER, "ASC"))
    /\ Present(Answer(last.px, eg, eid, DCGM_FI_DEV_PCIE_REPLAY_COUNTER, "DESC"))
    /\ AbsDiff(Answer(last.px, eg, eid, DCGM_FI_DEV_PCIE_REPLAY_COUNTER, "ASC").v,
               Answer(last.px, eg, eid, DCGM_FI_DEV_PCIE_REPLAY_COUNTER, "DESC").v) = diff

\* C11: a PCIe evaluation whose earliest and latest replay-counter samples are
\* non-blank returns success; it appends no incident when they differ by at
\* most DCGM_LIMIT_MAX_PCIREPLAY_RATE and exactly one incident, a WARN of the
\* PCIe category, when they differ by DCGM_LIMIT_MAX_PCIREPLAY_RATE + 1.
C11_PcieReplayRate ==
    IsMonitorCall
    => \A i \in RunsOf("MonitorPcie"), diff \in 0 .. DCGM_LIMIT_MAX_PCIREPLAY_RATE + 1 :
          PcieEvaluated(last.tr[i].eg, last.tr[i].eid, diff)
          => /\ last.tr[i].ret = DCGM_ST_OK
             /\ diff <= DCGM_LIMIT_MAX_PCIREPLAY_RATE
                => SystemIncidents(last.tr[i].eg, last.tr[i].eid, DCGM_HEALTH_WATCH_PCIE) = {}
             /\ diff = DCGM_LIMIT_MAX_PCIREPLAY_RATE + 1
                => /\ Cardinality(SystemIncidents(last.tr[i].eg, last.tr[i].eid,
                                                  DCGM_HEALTH_WATCH_PCIE)) = 1
                   /\ \A k \in SystemIncidents(last.tr[i].eg, last.tr[i].eid,
                                               DCGM_HEALTH_WATCH_PCIE) :
                         last.inc[k].health = DCGM_HEALTH_RESULT_WARN

\* both sides of the threshold are evaluated
C11_Witness ==
    /\ PcieEvaluated(DCGM_FE_GPU, 0, DCGM_LIMIT_MAX_PCIREPLAY_RATE + 1)
    /\ Cardinality(SystemIncidents(DCGM_FE_GPU, 0, DCGM_HEALTH_WATCH_PCIE)) = 1
    /\ last.op = "MonitorWatches"
    /\ PcieEvaluated(DCGM_FE_GPU, 1, 0)

\* the Memory evaluation of an entity whose latest volatile DBE sample is there
\* (read with success and non-blank)
VolatileDbeEvaluated(i) ==
    /\ last.tr[i].ev = "Evaluator"
    /\ last.tr[i].what = "MonitorMem"
    /\ Present(Answer(last.px, last.tr[i].eg, last.tr[i].eid,
                      DCGM_FI_DEV_ECC_DBE_VOL_TOTAL, "DESC"))

VolatileDbeCount(i) ==
    Answer(last.px, last.tr[i].eg, last.tr[i].eid, DCGM_FI_DEV_ECC_DBE_VOL_TOTAL, "DESC").v

\* C12: a latest volatile DBE sample of 0 appends no incident; a latest sample
\* of n > 0 appends exactly one FAIL incident of category Memory whose message
\* carries the count n.
C12_VolatileDbeCount ==
    IsMonitorCall
    => \A i \in RunsOf("MonitorMem") :
          VolatileDbeEvaluated(i)
          => /\ VolatileDbeCount(i) = 0
                => CodeIncidents(last.tr[i].eg, last.tr[i].eid,
                                 "DCGM_FR_VOLATILE_DBE_DETECTED") = {}
             /\ VolatileDbeCount(i) > 0
                => /\ Cardinality(CodeIncidents(last.tr[i].eg, last.tr[i].eid,
                                                "DCGM_FR_VOLATILE_DBE_DETECTED")) = 1
                   /\ \A k \in CodeIncidents(last.tr[i].eg, last.tr[i].eid,
                                             "DCGM_FR_VOLATILE_DBE_DETECTED") :
                         /\ last.inc[k].health = DCGM_HEALTH_RESULT_FAIL
                         /\ last.inc[k].system = DCGM_HEALTH_WATCH_MEM
                         /\ last.inc[k].args = <<VolatileDbeCount(i)>>

\* a sample as the retired-pages total counts it
BlankAsZero(a) == IF DCGM_INT64_IS_BLANK(a.v) THEN 0 ELSE a.v

LatestDbe(i) ==
    Answer(last.px, last.tr[i].eg, last.tr[i].eid, DCGM_FI_DEV_RETIRED_DBE, "DESC")

LatestSbe(i) ==
    Answer(last.px, last.tr[i].eg, last.tr[i].eid, DCGM_FI_DEV_RETIRED_SBE, "DESC")

WeekAgoDbe(i) ==
    Answer(last.px, last.tr[i].eg, last.tr[i].eid, DCGM_FI_DEV_RETIRED_DBE, "WEEK")

\* the queries for the retired DBE count made by the evaluation that starts at i
RetiredDbeQueries(i) ==
    {j \in EvaluatorRun(last.tr, i) : /\ last.tr[j].ev = "GetSamples"
                                      /\ last.tr[j].what = DCGM_FI_DEV_RETIRED_DBE}

\* the Memory evaluation at i read both retired-page counts and their total,
\* blank counted as 0, is at or over the cap
RetiredPagesCapped(i) ==
    /\ LatestDbe(i).st = DCGM_ST_OK
    /\ LatestSbe(i).st = DCGM_ST_OK
    /\ BlankAsZero(LatestDbe(i)) + BlankAsZero(LatestSbe(i)) >= DCGM_LIMIT_MAX_RETIRED_PAGES

\* C13: whenever retired SBE + retired DBE (a blank count as 0) is at least
\* DCGM_LIMIT_MAX_RETIRED_PAGES, exactly one FAIL is appended for the cap and
\* the weekly-rate check is skipped: no query for the count of one week ago,
\* no soft-limit FAIL, also when the DBE count is over the soft limit.
C13_RetiredPagesCap ==
    IsMonitorCall
    => \A i \in RunsOf("MonitorMem") :
          RetiredPagesCapped(i)
          => /\ Cardinality(CodeIncidents(last.tr[i].eg, last.tr[i].eid,
                                          "DCGM_FR_RETIRED_PAGES_LIMIT")) = 1
             /\ \A k \in CodeIncidents(last.tr[i].eg, last.tr[i].eid,
                                       "DCGM_FR_RETIRED_PAGES_LIMIT") :
                   /\ last.inc[k].health = DCGM_HEALTH_RESULT_FAIL
                   /\ last.inc[k].system = DCGM_HEALTH_WATCH_MEM
             /\ CodeIncidents(last.tr[i].eg, last.tr[i].eid,
                              "DCGM_FR_RETIRED_PAGES_DBE_LIMIT") = {}
             /\ Cardinality(RetiredDbeQueries(i)) = 1

\* the cap fires with a DBE count over the soft limit, and with a blank SBE
\* count
C13_Witness ==
    /\ IsMonitorCall
    /\ \E i \in RunsOf("MonitorMem") :
          /\ RetiredPagesCapped(i)
          /\ ~DCGM_INT64_IS_BLANK(LatestDbe(i).v)
          /\ LatestDbe(i).v > DCGM_LIMIT_MAX_RETIRED_PAGES_SOFT_LIMIT
          /\ ~DCGM_INT64_IS_BLANK(LatestSbe(i).v)
    /\ \E i \in RunsOf("MonitorMem") :
          /\ RetiredPagesCapped(i)
          /\ DCGM_INT64_IS_BLANK(LatestSbe(i).v)

\* the Memory evaluation at i read both retired-page counts and their total
\* is under the cap
RetiredPagesUncapped(i) ==
    /\ LatestDbe(i).st = DCGM_ST_OK
    /\ LatestSbe(i).st = DCGM_ST_OK
    /\ BlankAsZero(LatestDbe(i)) + BlankAsZero(LatestSbe(i)) < DCGM_LIMIT_MAX_RETIRED_PAGES

OverSoftLimit(i) ==
    /\ ~DCGM_INT64_IS_BLANK(LatestDbe(i).v)
    /\ LatestDbe(i).v > DCGM_LIMIT_MAX_RETIRED_PAGES_SOFT_LIMIT

DbeLimitIncidents(i) ==
    CodeIncidents(last.tr[i].eg, last.tr[i].eid, "DCGM_FR_RETIRED_PAGES_DBE_LIMIT")

\* C14: when the cap does not fire and the latest DBE count is over
\* DCGM_LIMIT_MAX_RETIRED_PAGES_SOFT_LIMIT, one FAIL is appended if and only
\* if the latest DBE count minus the DBE count of one week before now is
\* greater than 1 (a difference of 1 or less appends none); a DBE count at or
\* below the soft limit never triggers the query for the count of a week ago.
C14_WeeklyDbeRate ==
    IsMonitorCall
    => \A i \in RunsOf("MonitorMem") :
          RetiredPagesUncapped(i)
          => /\ (OverSoftLimit(i) /\ Present(WeekAgoDbe(i)))
                => /\ Cardinality(RetiredDbeQueries(i)) = 2
                   /\ LatestDbe(i).v - WeekAgoDbe(i).v > 1
                      => /\ Cardinality(DbeLimitIncidents(i)) = 1
                         /\ \A k \in DbeLimitIncidents(i) :
                               /\ last.inc[k].health = DCGM_HEALTH_RESULT_FAIL
                               /\ last.inc[k].system = DCGM_HEALTH_WATCH_MEM
                   /\ LatestDbe(i).v - WeekAgoDbe(i).v <= 1 => DbeLimitIncidents(i) = {}
             /\ ~OverSoftLimit(i)
                => /\ Cardinality(RetiredDbeQueries(i)) = 1
                   /\ DbeLimitIncidents(i) = {}

\* two pages retired within the week on one device, and next to it a device
\* at the soft limit or below
C14_Witness ==
    /\ IsMonitorCall
    /\ \E i \in RunsOf("MonitorMem") :
          /\ RetiredPagesUncapped(i)
          /\ OverSoftLimit(i)
          /\ Present(WeekAgoDbe(i))
          /\ LatestDbe(i).v - WeekAgoDbe(i).v = 2
          /\ Cardinality(DbeLimitIncidents(i)) = 1
    /\ \E i \in RunsOf("MonitorMem") :
          /\ RetiredPagesUncapped(i)
          /\ ~OverSoftLimit(i)
          /\ LatestDbe(i).v > 0

NvLinkCodes ==
    {"DCGM_FR_NVLINK_ERROR_CRITICAL", "DCGM_FR_NVLINK_CRC_ERROR_THRESHOLD",
     "DCGM_FR_NVLINK_ERROR_THRESHOLD"}

\* the incidents of the last call for counter f of an entity
CounterIncidents(eg, eid, f) ==
    {k \in 1 .. Len(last.inc) : /\ last.inc[k].entityGroupId = eg
                                /\ last.inc[k].entityId = eid
                                /\ last.inc[k].system = DCGM_HEALTH_WATCH_NVLINK
                                /\ last.inc[k].code \in NvLinkCodes
                                /\ last.inc[k].args[2] = FieldTag(f)}

OneIncident(S, health) ==
    /\ Cardinality(S) = 1
    /\ \A k \in S : last.inc[k].health = health

\* every counter query of the NVLink evaluation at i is answered with success
NvLinkRead(i) ==
    \A n \in 1 .. Len(NvLinkFieldIds), order \in {"ASC", "DESC"} :
        Answer(last.px, last.tr[i].eg, last.tr[i].eid, NvLinkFieldIds[n], order).st = DCGM_ST_OK

\* the evaluation at i has non-blank earliest and latest samples of counter f
NvLinkSamples(i, f) ==
    /\ NvLinkRead(i)
    /\ Present(Answer(last.px, last.tr[i].eg, last.tr[i].eid, f, "ASC"))
    /\ Present(Answer(last.px, last.tr[i].eg, last.tr[i].eid, f, "DESC"))

NvLinkDelta(i, f) ==
    AbsDiff(Answer(last.px, last.tr[i].eg, last.tr[i].eid, f, "ASC").v,
            Answer(last.px, last.tr[i].eg, last.tr[i].eid, f, "DESC").v)

\* the window of the last call as MonitorNVLink takes it, in milliseconds
ElapsedMs ==
    (IF last.endTime = 0 THEN last.px.now ELSE last.endTime)
    - (IF last.startTime = 0 THEN last.px.now - oneMinute ELSE last.startTime)

IsCrcCounter(f) ==
    f \in {DCGM_FI_DEV_NVLINK_CRC_FLIT_ERROR_COUNT_TOTAL,
           DCGM_FI_DEV_NVLINK_CRC_DATA_ERROR_COUNT_TOTAL}

\* C15: for each of the four NVLink counters whose earliest and latest samples
\* are non-blank: a delta below DCGM_LIMIT_MAX_NVLINK_ERROR appends nothing; a
\* delta at or over it appends one FAIL for the replay and recovery counters,
\* and for the CRC counters one WARN when delta per elapsed second is below
\* DCGM_LIMIT_MAX_NVLINK_CRC_ERROR and one FAIL when it is above.
C15_NvLinkCounters ==
    IsMonitorCall
    => \A i \in RunsOf("MonitorNVLink"), n \in 1 .. Len(NvLinkFieldIds) :
          NvLinkSamples(i, NvLinkFieldIds[n])
          => /\ NvLinkDelta(i, NvLinkFieldIds[n]) < DCGM_LIMIT_MAX_NVLINK_ERROR
                => CounterIncidents(last.tr[i].eg, last.tr[i].eid, NvLinkFieldIds[n]) = {}
             /\ (/\ NvLinkDelta(i, NvLinkFieldIds[n]) >= DCGM_LIMIT_MAX_NVLINK_ERROR
                 /\ ~IsCrcCounter(NvLinkFieldIds[n]))
                => OneIncident(CounterIncidents(last.tr[i].eg, last.tr[i].eid, NvLinkFieldIds[n]),
                               DCGM_HEALTH_RESULT_FAIL)
             /\ (/\ NvLinkDelta(i, NvLinkFieldIds[n]) >= DCGM_LIMIT_MAX_NVLINK_ERROR
                 /\ IsCrcCounter(NvLinkFieldIds[n])
                 /\ NvLinkDelta(i, NvLinkFieldIds[n]) * 1000
                        < DCGM_LIMIT_MAX_NVLINK_CRC_ERROR * ElapsedMs)
                => OneIncident(CounterIncidents(last.tr[i].eg, last.tr[i].eid, NvLinkFieldIds[n]),
                               DCGM_HEALTH_RESULT_WARN)
             /\ (/\ NvLinkDelta(i, NvLinkFieldIds[n]) >= DCGM_LIMIT_MAX_NVLINK_ERROR
                 /\ IsCrcCounter(NvLinkFieldIds[n])
                 /\ NvLinkDelta(i, NvLinkFieldIds[n]) * 1000
                        > DCGM_LIMIT_MAX_NVLINK_CRC_ERROR * ElapsedMs)
                => OneIncident(CounterIncidents(last.tr[i].eg, last.tr[i].eid, NvLinkFieldIds[n]),
                               DCGM_HEALTH_RESULT_FAIL)

\* a CRC counter one error over the rate limit: its FAIL, and nothing for the
\* three counters that did not move
C15_Witness ==
    /\ IsMonitorCall
    /\ \E i \in RunsOf("MonitorNVLink") :
          /\ NvLinkSamples(i, DCGM_FI_DEV_NVLINK_CRC_DATA_ERROR_COUNT_TOTAL)
          /\ NvLinkDelta(i, DCGM_FI_DEV_NVLINK_CRC_DATA_ERROR_COUNT_TOTAL) * 1000
                > DCGM_LIMIT_MAX_NVLINK_CRC_ERROR * ElapsedMs
          /\ NvLinkDelta(i, DCGM_FI_DEV_NVLINK_REPLAY_ERROR_COUNT_TOTAL) = 0
          /\ OneIncident(CounterIncidents(last.tr[i].eg, last.tr[i].eid,
                                          DCGM_FI_DEV_NVLINK_CRC_DATA_ERROR_COUNT_TOTAL),
                         DCGM_HEALTH_RESULT_FAIL)
          /\ Cardinality(SystemIncidents(last.tr[i].eg, last.tr[i].eid,
                                         DCGM_HEALTH_WATCH_NVLINK)) = 1

\* the incidents of the last call for link linkId of a switch in a category
SwitchIncidents(eg, eid, fatal, linkId) ==
    {k \in 1 .. Len(last.inc) :
        /\ last.inc[k].entityGroupId = eg
        /\ last.inc[k].entityId = eid
        /\ last.inc[k].code = (IF fatal THEN "DCGM_FR_NVSWITCH_FATAL_ERROR"
                                        ELSE "DCGM_FR_NVSWITCH_NON_FATAL_ERROR")
        /\ last.inc[k].args = <<linkId>>}

\* the incidents of the last call for a switch in a category, any link
SwitchCategoryIncidents(eg, eid, fatal) ==
    CodeIncidents(eg, eid, IF fatal THEN "DCGM_FR_NVSWITCH_FATAL_ERROR"
                                    ELSE "DCGM_FR_NVSWITCH_NON_FATAL_ERROR")

\* what the evaluation at i of a category is held to for field n of its list
SwitchFieldChecked(i, fatal, fieldIds, n) ==
    IF /\ Present(Answer(last.px, last.tr[i].eg, last.tr[i].eid, fieldIds[n], "DESC"))
       /\ Answer(last.px, last.tr[i].eg, last.tr[i].eid, fieldIds[n], "DESC").v > 0
    THEN /\ OneIncident(SwitchIncidents(last.tr[i].eg, last.tr[i].eid, fatal, n - 1),
                        IF fatal THEN DCGM_HEALTH_RESULT_FAIL ELSE DCGM_HEALTH_RESULT_WARN)
         /\ \A k \in SwitchIncidents(last.tr[i].eg, last.tr[i].eid, fatal, n - 1) :
               last.inc[k].system = (IF fatal THEN DCGM_HEALTH_WATCH_NVSWITCH_FATAL
                                              ELSE DCGM_HEALTH_WATCH_NVSWITCH_NONFATAL)
    ELSE SwitchIncidents(last.tr[i].eg, last.tr[i].eid, fatal, n - 1) = {}

\* C16: in a switch evaluation, each field of the category's list whose latest
\* sample is read, non-blank and positive yields exactly one incident (FAIL in
\* the fatal category, WARN in the non-fatal one) whose link index is the
\* field id minus the first field id of the list; a sample of 0, a blank
\* sample and a failed query yield none.
C16_NvSwitchErrorCounts ==
    IsMonitorCall
    => /\ \A i \in RunsOf("MonitorNvSwitchErrorCounts(true)") :
             /\ \A n \in 1 .. Len(m_nvSwitchFatalFieldIds) :
                   SwitchFieldChecked(i, TRUE, m_nvSwitchFatalFieldIds, n)
             /\ \A k \in SwitchCategoryIncidents(last.tr[i].eg, last.tr[i].eid, TRUE) :
                   \E n \in 1 .. Len(m_nvSwitchFatalFieldIds) : last.inc[k].args = <<n - 1>>
       /\ \A i \in RunsOf("MonitorNvSwitchErrorCounts(false)") :
             /\ \A n \in 1 .. Len(m_nvSwitchNonFatalFieldIds) :
                   SwitchFieldChecked(i, FALSE, m_nvSwitchNonFatalFieldIds, n)
             /\ \A k \in SwitchCategoryIncidents(last.tr[i].eg, last.tr[i].eid, FALSE) :
                   \E n \in 1 .. Len(m_nvSwitchNonFatalFieldIds) : last.inc[k].args = <<n - 1>>

\* a switch with fatal errors and no non-fatal ones: one FAIL, no WARN
C16_Witness ==
    /\ last.op = "MonitorWatches"
    /\ \E i \in RunsOf("MonitorNvSwitchErrorCounts(true)") :
          /\ Answer(last.px, last.tr[i].eg, last.tr[i].eid,
                    DCGM_FI_DEV_NVSWITCH_FATAL_ERRORS, "DESC") = Resp(DCGM_ST_OK, 3)
          /\ Answer(last.px, last.tr[i].eg, last.tr[i].eid,
                    DCGM_FI_DEV_NVSWITCH_NON_FATAL_ERRORS, "DESC") = Resp(DCGM_ST_OK, 0)
          /\ OneIncident(SwitchIncidents(last.tr[i].eg, last.tr[i].eid, TRUE, 0),
                         DCGM_HEALTH_RESULT_FAIL)
          /\ SwitchCategoryIncidents(last.tr[i].eg, last.tr[i].eid, FALSE) = {}

(***************************************************************************)
(* SetWatches over the entities of a group                                 *)
(***************************************************************************)
\* the installer invocations of the last call for entity e
InstallerEvents(e) ==
    {i \in 1 .. Len(last.tr) : /\ last.tr[i].ev \in {"Installer(enable)", "Installer(disable)"}
                               /\ last.tr[i].eg = e.entityGroupId
                               /\ last.tr[i].eid = e.entityId}

InstallerFailed(e) == \E i \in InstallerEvents(e) : last.tr[i].ret # DCGM_ST_OK

EnabledBits(bits) == {b \in bits : HasBit(last.systems, b)}

\* the installers of every enabled bit of e were invoked with enable = true
InstallersInvoked(e) ==
    IF FitsGpuHardwareCheck(e.entityGroupId)
    THEN Cardinality({i \in InstallerEvents(e) : last.tr[i].ev = "Installer(enable)"})
            = Cardinality(EnabledBits(GpuBits))
    ELSE IF e.entityGroupId = DCGM_FE_CPU
    THEN Cardinality({i \in InstallerEvents(e) : last.tr[i].ev = "Installer(enable)"})
            = Cardinality(EnabledBits(CpuBits))
    ELSE IF e.entityGroupId = DCGM_FE_SWITCH
    THEN \E i \in 1 .. Len(last.tr) : last.tr[i].ev = "SetNvSwitchWatches"
    ELSE TRUE

\* C17: per-entity failure isolation in SetWatches: when an installer fails
\* for an entity, only the remaining bits of that entity are skipped; for
\* every entity later in the group's list (device-class, CPU or switch) the
\* installers of the bits enabled in the mask are still invoked (all of them
\* when none of its own installers fails).
C17_FailureIsolation ==
    (last.op = "SetWatches" /\ last.geRet = DCGM_ST_OK)
    => \A p \in 1 .. Len(GroupEntities(last.groupId)),
          q \in 1 .. Len(GroupEntities(last.groupId)) :
          (/\ p < q
           /\ InstallerFailed(GroupEntities(last.groupId)[p])
           /\ ~InstallerFailed(GroupEntities(last.groupId)[q]))
          => InstallersInvoked(GroupEntities(last.groupId)[q])

\* C18: for a CRC counter whose delta is at least DCGM_LIMIT_MAX_NVLINK_ERROR
\* and whose rate per second is exactly DCGM_LIMIT_MAX_NVLINK_CRC_ERROR, the
\* incident is a WARN with the generic threshold message: only a rate
\* strictly above the limit is a FAIL.
C18_CrcRateAtLimit ==
    IsMonitorCall
    => \A i \in RunsOf("MonitorNVLink"), n \in 1 .. Len(NvLinkFieldIds) :
          (/\ NvLinkSamples(i, NvLinkFieldIds[n])
           /\ IsCrcCounter(NvLinkFieldIds[n])
           /\ NvLinkDelta(i, NvLinkFieldIds[n]) >= DCGM_LIMIT_MAX_NVLINK_ERROR
           /\ NvLinkDelta(i, NvLinkFieldIds[n]) * 1000
                 = DCGM_LIMIT_MAX_NVLINK_CRC_ERROR * ElapsedMs)
          => /\ OneIncident(CounterIncidents(last.tr[i].eg, last.tr[i].eid, NvLinkFieldIds[n]),
                            DCGM_HEALTH_RESULT_WARN)
             /\ \A k \in CounterIncidents(last.tr[i].eg, last.tr[i].eid, NvLinkFieldIds[n]) :
                   last.inc[k].code = "DCGM_FR_NVLINK_ERROR_THRESHOLD"

(***************************************************************************)
(* The uncontained-error sub-check and the set it reads                    *)
(***************************************************************************)
\* the Memory evaluations of the last call of entities whose id is flagged
FlaggedMemoryEvaluations ==
    {i \in RunsOf("MonitorMem") : last.tr[i].eid \in m_gpuHadUncontainedErrorXid}

\* C19 as claimed: the uncontained-error sub-check applies to every
\* device-class entity: a full device, a device partition or a compute slice
\* whose id is in the set gets a FAIL from its Memory evaluation; entities
\* that are not device-class never do.
C19_Original ==
    IsMonitorCall
    => /\ \A i \in FlaggedMemoryEvaluations :
             FitsGpuHardwareCheck(last.tr[i].eg)
             => UncontainedIncidents(last.inc, last.tr[i].eg, last.tr[i].eid) # {}
       /\ \A k \in 1 .. Len(last.inc) :
             last.inc[k].code = "DCGM_FR_UNCONTAINED_ERROR"
             => FitsGpuHardwareCheck(last.inc[k].entityGroupId)

\* C19: the uncontained-error sub-check applies to full devices only: the
\* Memory evaluation of a full device whose id is in the set appends a FAIL;
\* that of a device partition or of a compute slice appends none and does not
\* look the set up, also when its id is in the set; entities that are not
\* device-class never get this incident.
C19_FullDevicesOnly ==
    IsMonitorCall
    => /\ \A i \in FlaggedMemoryEvaluations :
             /\ last.tr[i].eg = DCGM_FE_GPU
                => \E k \in UncontainedIncidents(last.inc, DCGM_FE_GPU, last.tr[i].eid) :
                      last.inc[k].health = DCGM_HEALTH_RESULT_FAIL
             /\ last.tr[i].eg # DCGM_FE_GPU
                => /\ UncontainedIncidents(last.inc, last.tr[i].eg, last.tr[i].eid) = {}
                   /\ \A j \in EvaluatorRun(last.tr, i) : ~IsFlagLookup(last.tr[j])
       /\ \A k \in 1 .. Len(last.inc) :
             last.inc[k].code = "DCGM_FR_UNCONTAINED_ERROR"
             => FitsGpuHardwareCheck(last.inc[k].entityGroupId)

\* GPU 1 is flagged and group 1 is monitored: the FAIL for GPU 1, nothing for
\* GPU instance 1
C19_Witness ==
    /\ last.op = "MonitorWatches"
    /\ 1 \in m_gpuHadUncontainedErrorXid
    /\ \E i \in FlaggedMemoryEvaluations :
          last.tr[i].eg = DCGM_FE_GPU_I /\ last.tr[i].eid = 1
    /\ \E i \in FlaggedMemoryEvaluations :
          last.tr[i].eg = DCGM_FE_GPU /\ last.tr[i].eid = 1
    /\ UncontainedIncidents(last.inc, DCGM_FE_GPU, 1) # {}
    /\ UncontainedIncidents(last.inc, DCGM_FE_GPU_I, 1) = {}

\* the last call evaluated the memory of GPU d
MemoryEvaluated(d) ==
    /\ IsMonitorCall
    /\ \E i \in RunsOf("MonitorMem") : last.tr[i].eg = DCGM_FE_GPU /\ last.tr[i].eid = d

\* the last call reported the uncontained-error FAIL for GPU d
UncontainedReported(d) ==
    /\ IsMonitorCall
    /\ UncontainedIncidents(last.inc, DCGM_FE_GPU, d) # {}

\* C20: the set of devices with an uncontained error is append-only: no
\* operation removes an id from it, so once a Memory evaluation of device d
\* has reported the uncontained-error FAIL, every later Memory evaluation of d
\* reports it again.
C20_AppendOnly ==
    /\ [][m_gpuHadUncontainedErrorXid \subseteq m_gpuHadUncontainedErrorXid']_vars
    /\ \A d \in GpuIds :
          [](UncontainedReported(d) => [](MemoryEvaluated(d) => UncontainedReported(d)))

\* GPU 1 reports the FAIL after the watches were set on both groups and group
\* 1 was removed, GPU 0 being flagged as well
C20_Witness ==
    /\ last.op = "MonitorWatchesForGpu"
    /\ MemoryEvaluated(1)
    /\ UncontainedReported(1)
    /\ m_gpuHadUncontainedErrorXid = {0, 1}
    /\ DOMAIN mGroupWatchState = {2}

(***************************************************************************)
(* The frame of OnFieldValuesUpdate                                        *)
(***************************************************************************)
\* what record fv adds to the set: its entity id when it is for a GPU, on the
\* XID field, with the fatal value; nothing otherwise
Inserted(fv) ==
    IF /\ fv.entityGroupId = DCGM_FE_GPU
       /\ fv.fieldId = DCGM_FI_DEV_XID_ERRORS
       /\ fv.value = XID_UNCONTAINED
    THEN {fv.entityId} ELSE {}

\* a step that ingests a batch changes the set only, by the ids its records
\* insert, and ingesting the batch once more changes nothing
IngestionStep ==
    (last.op = "none" /\ last'.op = "OnFieldValuesUpdate")
    => /\ m_gpuHadUncontainedErrorXid'
          = m_gpuHadUncontainedErrorXid
            \cup UNION {Inserted(last'.fvBuffer[i]) : i \in 1 .. Len(last'.fvBuffer)}
       /\ OnFieldValuesUpdateRun(m_gpuHadUncontainedErrorXid', last'.fvBuffer)
          = m_gpuHadUncontainedErrorXid'
       /\ mGroupWatchState' = mGroupWatchState
       /\ watches' = watches

\* C21: OnFieldValuesUpdate changes only the set of devices with an
\* uncontained error, and only by inserting ids: a record adds its entity id
\* if and only if it is for a device, on the XID field, with the value 95;
\* records for other entity types, fields or values leave the set unchanged;
\* ingesting the same batch twice gives the same set as ingesting it once; the
\* watch registry is never changed.
C21_IngestionFrame == [][IngestionStep]_vars

\* a batch with the fatal code for a switch and another XID for GPU 1 was
\* ingested after GPU 0 was flagged: the set is still GPU 0 alone
C21_Witness ==
    /\ last.op = "OnFieldValuesUpdate"
    /\ Len(last.fvBuffer) = 2
    /\ last.fvBuffer[1] = Fv(DCGM_FE_SWITCH, 1, DCGM_FI_DEV_XID_ERRORS, XID_UNCONTAINED)
    /\ last.fvBuffer[2] = Fv(DCGM_FE_GPU, 1, DCGM_FI_DEV_XID_ERRORS, 43)
    /\ m_gpuHadUncontainedErrorXid = {0}
    /\ DOMAIN mGroupWatchState = {1, 2}

(***************************************************************************)
(* The installers                                                          *)
(***************************************************************************)
IsRefresh(e) == e.ev = "UpdateAllFields"
IsAddWatch(e) == e.ev = "AddFieldWatch"

\* C24: every SetWatches call that resolves the group's entities invokes the
\* refresh of all subscribed metrics exactly once, after every AddFieldWatch
\* of the run and as its last step, also when an installer or the switch
\* installer failed; a SetWatches call whose group resolution fails invokes no
\* AddFieldWatch and no refresh, and leaves the registry unchanged.
C24_RefreshOnce ==
    last.op = "SetWatches"
    => /\ last.geRet = DCGM_ST_OK
          => /\ Cardinality(Where(last.tr, IsRefresh)) = 1
             /\ IsRefresh(last.tr[Len(last.tr)])
             /\ \A i \in Where(last.tr, IsAddWatch) : i < Len(last.tr)
             /\ Cardinality(Where(last.tr, IsAddWatch)) = Len(last.calls)
       /\ last.geRet # DCGM_ST_OK
          => /\ Where(last.tr, IsRefresh) = {}
             /\ Where(last.tr, IsAddWatch) = {}
             /\ last.calls = << >>
             /\ mGroupWatchState = last.before

\* the switch installer failed and the refresh was still made, once
C24_Witness ==
    /\ last.op = "SetWatches"
    /\ last.geRet = DCGM_ST_OK
    /\ \E i \in 1 .. Len(last.tr) :
          last.tr[i].ev = "SetNvSwitchWatches" /\ last.tr[i].ret # DCGM_ST_OK
    /\ Cardinality(Where(last.tr, IsRefresh)) = 1
    /\ Len(last.calls) > 20

IsEnabledInstaller(e) == e.ev = "Installer(enable)"

\* the AddFieldWatch events of the installer invoked at position i of the last
\* call: those that follow it without another event in between
InstallerRun(i) ==
    {j \in i + 1 .. Len(last.tr) : \A k \in i + 1 .. j : IsAddWatch(last.tr[k])}

\* the subscriptions the installer named in event e issues when none fails
AllSubscriptions(e) ==
    CASE e.what = "SetPcie" ->
           SetPcie(NoFault, e.eg, e.eid, TRUE, last.updateInterval, last.maxKeepAge).calls
      [] e.what = "SetMem" ->
           SetMem(NoFault, e.eg, e.eid, TRUE, last.updateInterval, last.maxKeepAge).calls
      [] e.what = "SetInforom" ->
           SetInforom(NoFault, e.eg, e.eid, TRUE, last.updateInterval, last.maxKeepAge).calls
      [] e.what = "SetThermal" ->
           SetThermal(NoFault, e.eg, e.eid, TRUE, last.updateInterval, last.maxKeepAge).calls
      [] e.what = "SetPower" ->
           SetPower(NoFault, e.eg, e.eid, TRUE, last.updateInterval, last.maxKeepAge).calls
      [] e.what = "SetNVLink" ->
           SetNVLink(NoFault, e.eg, e.eid, TRUE, last.updateInterval, last.maxKeepAge).calls
      [] e.what = "SetCpuThermal" ->
           SetCpuThermal(NoFault, e.eg, e.eid, TRUE, last.updateInterval, last.maxKeepAge).calls
      [] e.what = "SetCpuPower" ->
           SetCpuPower(NoFault, e.eg, e.eid, TRUE, last.updateInterval, last.maxKeepAge).calls

\* the installer at i issued the first n of its subscriptions, in their order
IssuedPrefix(i, n) ==
    /\ n <= Len(AllSubscriptions(last.tr[i]))
    /\ \A k \in 1 .. n :
          /\ last.tr[i + k].what = AllSubscriptions(last.tr[i])[k].fieldId
          /\ last.tr[i + k].eg = last.tr[i].eg
          /\ last.tr[i + k].eid = last.tr[i].eid

\* C25: within one installer the subscriptions are issued in a fixed order and
\* the first AddFieldWatch that fails ends the installer: the installer
\* returns that status and issues no further AddFieldWatch, so the
\* subscriptions added by a failed installer are exactly those before the
\* failing field.
C25_FirstFailureEndsInstaller ==
    last.op = "SetWatches"
    => \A i \in Where(last.tr, IsEnabledInstaller) :
          /\ IssuedPrefix(i, Cardinality(InstallerRun(i)))
          /\ \A j \in InstallerRun(i) :
                last.tr[j].ret # DCGM_ST_OK
                => /\ j = i + Cardinality(InstallerRun(i))
                   /\ last.tr[i].ret = last.tr[j].ret
          /\ last.tr[i].ret = DCGM_ST_OK
             => /\ Cardinality(InstallerRun(i)) = Len(AllSubscriptions(last.tr[i]))
                /\ \A j \in InstallerRun(i) : last.tr[j].ret = DCGM_ST_OK
          /\ last.tr[i].ret # DCGM_ST_OK
             => \E j \in InstallerRun(i) : last.tr[j].ret # DCGM_ST_OK

\* SetMem of GPU 0 failed on its third subscription: two were added, three
\* were never tried
C25_Witness ==
    /\ last.op = "SetWatches"
    /\ \E i \in Where(last.tr, IsEnabledInstaller) :
          /\ last.tr[i].what = "SetMem"
          /\ last.tr[i].ret = DCGM_ST_GENERIC_ERROR
          /\ Cardinality(InstallerRun(i)) = 3
          /\ last.tr[i + 3].what = DCGM_FI_DEV_RETIRED_DBE
    /\ WatchKey(DCGM_FE_GPU, 0, DCGM_FI_DEV_RETIRED_SBE) \in watches
    /\ WatchKey(DCGM_FE_GPU, 0, DCGM_FI_DEV_RETIRED_DBE) \notin watches
    /\ WatchKey(DCGM_FE_GPU, 0, DCGM_FI_DEV_ROW_REMAP_FAILURE) \notin watches

\* the AddFieldWatch call behind the event at position j of the last call
CallAt(j) == last.calls[Cardinality({k \in Where(last.tr, IsAddWatch) : k <= j})]

ThirtySecondInstallers == {"SetThermal", "SetPower", "SetCpuThermal", "SetCpuPower"}

\* what the call c of the installer named name is held to; memFloored are the
\* Memory fields sampled at 30 s or slower
SamplingOf(name, c, memFloored) ==
    IF name = "SetInforom"
    THEN /\ c.updateInterval = Max(3600000, last.updateInterval)
         /\ c.maxKeepAge = Max(7200, last.maxKeepAge)
    ELSE /\ c.maxKeepAge = last.maxKeepAge
         /\ c.updateInterval
            = IF name \in ThirtySecondInstallers \/ (name = "SetMem" /\ c.fieldId \in memFloored)
              THEN Max(30000, last.updateInterval)
              ELSE last.updateInterval

SamplingFloors(memFloored) ==
    last.op = "SetWatches"
    => \A i \in Where(last.tr, IsEnabledInstaller) :
          \A j \in InstallerRun(i) :
             /\ CallAt(j).fieldId = last.tr[j].what
             /\ SamplingOf(last.tr[i].what, CallAt(j), memFloored)

MemFields ==
    {DCGM_FI_DEV_ECC_DBE_VOL_TOTAL, DCGM_FI_DEV_RETIRED_SBE, DCGM_FI_DEV_RETIRED_DBE,
     DCGM_FI_DEV_RETIRED_PENDING, DCGM_FI_DEV_XID_ERRORS, DCGM_FI_DEV_ROW_REMAP_FAILURE}

\* C26 as claimed: every AddFieldWatch of the Memory, Thermal, Power,
\* CPU-Thermal and CPU-Power installers uses the interval max(30 s, caller's
\* interval); the Inforom installer uses max(1 h, caller's interval) and the
\* retention max(2 h, caller's retention); the PCIe and NVLink installers pass
\* the caller's interval and retention unchanged; for every field subscribed.
C26_Original == SamplingFloors(MemFields)

\* C26: the same, but for the first subscription of the Memory installer, the
\* volatile DBE count, which is sampled at the caller's interval unchanged;
\* the other five fields of the Memory installer use max(30 s, caller's
\* interval).
C26_SamplingFloors == SamplingFloors(MemFields \ {DCGM_FI_DEV_ECC_DBE_VOL_TOTAL})

\* a caller's interval of 1 s: the volatile DBE count is sampled every second,
\* the retired pages every 30 s and the inforom every hour, kept 2 hours
C26_Witness ==
    /\ last.op = "SetWatches"
    /\ last.updateInterval = 1000
    /\ last.fx = NoFault
    /\ \E j \in Where(last.tr, IsAddWatch) :
          /\ CallAt(j).fieldId = DCGM_FI_DEV_ECC_DBE_VOL_TOTAL
          /\ CallAt(j).updateInterval = 1000
    /\ \E j \in Where(last.tr, IsAddWatch) :
          /\ CallAt(j).fieldId = DCGM_FI_DEV_RETIRED_SBE
          /\ CallAt(j).updateInterval = 30000
    /\ \E j \in Where(last.tr, IsAddWatch) :
          /\ CallAt(j).fieldId = DCGM_FI_DEV_INFOROM_CONFIG_VALID
          /\ CallAt(j).updateInterval = 3600000
          /\ CallAt(j).maxKeepAge = 7200

\* the PCIe incidents of the evaluation at position i of the last call
PcieIncidents(i) == SystemIncidents(last.tr[i].eg, last.tr[i].eid, DCGM_HEALTH_WATCH_PCIE)

PcieDifference(i) ==
    AbsDiff(Answer(last.px, last.tr[i].eg, last.tr[i].eid, DCGM_FI_DEV_PCIE_REPLAY_COUNTER, "ASC").v,
            Answer(last.px, last.tr[i].eg, last.tr[i].eid, DCGM_FI_DEV_PCIE_REPLAY_COUNTER, "DESC").v)

\* C30: a PCIe evaluation whose earliest and latest replay-counter samples are
\* non-blank and differ, in their full width, by more than
\* DCGM_LIMIT_MAX_PCIREPLAY_RATE appends the WARN of the PCIe category, however
\* large the difference is.
C30_PcieFullWidth ==
    IsMonitorCall
    => \A i \in RunsOf("MonitorPcie") :
          ( /\ Present(Answer(last.px, last.tr[i].eg, last.tr[i].eid,
                              DCGM_FI_DEV_PCIE_REPLAY_COUNTER, "ASC"))
            /\ Present(Answer(last.px, last.tr[i].eg, last.tr[i].eid,
                              DCGM_FI_DEV_PCIE_REPLAY_COUNTER, "DESC"))
            /\ PcieDifference(i) > DCGM_LIMIT_MAX_PCIREPLAY_RATE )
          => /\ Cardinality(PcieIncidents(i)) = 1
             /\ \A k \in PcieIncidents(i) : last.inc[k].health = DCGM_HEALTH_RESULT_WARN

\* the statuses of the five sub-checks of the Memory evaluation at position i
\* of the last call, in the order of the source
SubCheckStatuses(i) ==
    << MonitorMemVolatileDbes(last.px, last.tr[i].eg, last.tr[i].eid, 0, 0).ret,
       MonitorMemRetiredPending(last.px, last.tr[i].eg, last.tr[i].eid, 0, 0).ret,
       MonitorMemSbeDbeRetiredPages(last.px, last.tr[i].eg, last.tr[i].eid, 0, 0).ret,
       MonitorMemRowRemapFailures(last.px, last.tr[i].eg, last.tr[i].eid, 0, 0).ret,
       MonitorUncontainedErrors(m_gpuHadUncontainedErrorXid, last.tr[i].eg, last.tr[i].eid,
                                0, 0).ret >>

\* the status of the last element of sts that is not success
LastFailure(sts) ==
    IF \A k \in 1 .. Len(sts) : sts[k] = DCGM_ST_OK THEN DCGM_ST_OK
    ELSE sts[CHOOSE k \in 1 .. Len(sts) :
                /\ sts[k] # DCGM_ST_OK
                /\ \A m \in k + 1 .. Len(sts) : sts[m] = DCGM_ST_OK]

\* the queries for field f made by the evaluation that starts at i
QueriesOf(i, f) ==
    {j \in EvaluatorRun(last.tr, i) : IsSampleStoreCall(last.tr[j]) /\ last.tr[j].what = f}

\* every position of A comes before every position of B
Before(A, B) == \A a \in A, b \in B : a < b

\* C27: MonitorMem always executes its five sub-checks in the order volatile
\* DBE, retired-pending, retired pages, row-remap failure, uncontained error,
\* also after a sub-check that failed or appended an incident: each of the
\* first four queries its field, in that order, and for a full GPU the set of
\* uncontained errors is looked up last.  The status returned is that of the
\* last sub-check that did not return success, and success if there is none.
C27_AllSubChecks ==
    IsMonitorCall
    => \A i \in RunsOf("MonitorMem") :
          /\ Cardinality(QueriesOf(i, DCGM_FI_DEV_ECC_DBE_VOL_TOTAL)) = 1
          /\ Cardinality(QueriesOf(i, DCGM_FI_DEV_RETIRED_PENDING)) = 1
          /\ QueriesOf(i, DCGM_FI_DEV_RETIRED_DBE) # {}
          /\ Cardinality(QueriesOf(i, DCGM_FI_DEV_ROW_REMAP_FAILURE)) = 1
          /\ Before(QueriesOf(i, DCGM_FI_DEV_ECC_DBE_VOL_TOTAL),
                    QueriesOf(i, DCGM_FI_DEV_RETIRED_PENDING))
          /\ Before(QueriesOf(i, DCGM_FI_DEV_RETIRED_PENDING),
                    QueriesOf(i, DCGM_FI_DEV_RETIRED_DBE)
                       \cup QueriesOf(i, DCGM_FI_DEV_RETIRED_SBE))
          /\ Before(QueriesOf(i, DCGM_FI_DEV_RETIRED_DBE)
                       \cup QueriesOf(i, DCGM_FI_DEV_RETIRED_SBE),
                    QueriesOf(i, DCGM_FI_DEV_ROW_REMAP_FAILURE))
          /\ last.tr[i].eg = DCGM_FE_GPU
             => /\ Cardinality({j \in EvaluatorRun(last.tr, i) : IsFlagLookup(last.tr[j])}) = 1
                /\ Before(QueriesOf(i, DCGM_FI_DEV_ROW_REMAP_FAILURE),
                          {j \in EvaluatorRun(last.tr, i) : IsFlagLookup(last.tr[j])})
          /\ last.tr[i].ret = LastFailure(SubCheckStatuses(i))

\* the first sub-check fails with one status and appends nothing, the next
\* three fail with another, the uncontained error of the GPU is still reported
\* and the status is that of the fourth sub-check
C27_Witness ==
    /\ last.op = "MonitorWatches"
    /\ \E i \in RunsOf("MonitorMem") :
          /\ last.tr[i].eg = DCGM_FE_GPU
          /\ last.tr[i].eid = 0
          /\ SubCheckStatuses(i)[1] = DCGM_ST_TIMEOUT
          /\ SubCheckStatuses(i)[4] = DCGM_ST_GENERIC_ERROR
          /\ last.tr[i].ret = DCGM_ST_GENERIC_ERROR
          /\ UncontainedIncidents(last.inc, DCGM_FE_GPU, 0) # {}

\* the link-down incidents of the last call for link l of a switch
SwitchLinkDown(eid, l) ==
    {k \in CodeIncidents(DCGM_FE_SWITCH, eid, "DCGM_FR_NVLINK_DOWN") : last.inc[k].args = <<l>>}

\* the link states read by the evaluation that starts at i
LinkStatusReads(i) ==
    {j \in EvaluatorRun(last.tr, i) : last.tr[j].ev = "GetEntityNvLinkLinkStatus"}

\* C28: the link states of a switch are read on the fatal pass only.  The
\* non-fatal evaluation never reads them and the fatal one reads them once;
\* for a group whose mask has both switch bits every link reported down gives
\* exactly one link-down incident, a FAIL of the fatal category; for a group
\* whose mask has the non-fatal bit without the fatal one there is none.
C28_LinksOnFatalPass ==
    (last.op = "MonitorWatches" /\ last.mask # Unset)
    => /\ \A i \in RunsOf("MonitorNvSwitchErrorCounts(false)") : LinkStatusReads(i) = {}
       /\ \A i \in RunsOf("MonitorNvSwitchErrorCounts(true)") :
             /\ Cardinality(LinkStatusReads(i)) = 1
             /\ (HasBit(last.mask, DCGM_HEALTH_WATCH_NVSWITCH_NONFATAL)
                 /\ last.px.linkRet = DCGM_ST_OK)
                => \A l \in last.px.linkDown :
                      /\ Cardinality(SwitchLinkDown(last.tr[i].eid, l)) = 1
                      /\ \A k \in SwitchLinkDown(last.tr[i].eid, l) :
                            /\ last.inc[k].health = DCGM_HEALTH_RESULT_FAIL
                            /\ last.inc[k].system = DCGM_HEALTH_WATCH_NVSWITCH_FATAL
       /\ ~HasBit(last.mask, DCGM_HEALTH_WATCH_NVSWITCH_FATAL)
          => \A k \in 1 .. Len(last.inc) :
                ~(last.inc[k].entityGroupId = DCGM_FE_SWITCH
                  /\ last.inc[k].code = "DCGM_FR_NVLINK_DOWN")

\* both switch bits set and links 0 and 2 of the switch down: both passes
\* ran and there are two link-down incidents, one per link
C28_Witness ==
    /\ last.op = "MonitorWatches"
    /\ last.mask = DCGM_HEALTH_WATCH_NVSWITCH_NONFATAL + DCGM_HEALTH_WATCH_NVSWITCH_FATAL
    /\ last.px.linkDown = {0, 2}
    /\ RunsOf("MonitorNvSwitchErrorCounts(false)") # {}
    /\ RunsOf("MonitorNvSwitchErrorCounts(true)") # {}
    /\ Cardinality(CodeIncidents(DCGM_FE_SWITCH, 0, "DCGM_FR_NVLINK_DOWN")) = 2

\* only the non-fatal bit set and links down: the pass ran, no link-down incident
C28_WitnessNonFatal ==
    /\ last.op = "MonitorWatches"
    /\ last.mask = DCGM_HEALTH_WATCH_NVSWITCH_NONFATAL
    /\ last.px.linkDown = {0, 2}
    /\ RunsOf("MonitorNvSwitchErrorCounts(false)") # {}

DeviceClass == {DCGM_FE_GPU, DCGM_FE_GPU_I, DCGM_FE_GPU_CI}

\* the entity classes an incident of the category may be about
RoutedTo(system) ==
    IF system \in {DCGM_HEALTH_WATCH_PCIE, DCGM_HEALTH_WATCH_MEM, DCGM_HEALTH_WATCH_INFOROM,
                   DCGM_HEALTH_WATCH_NVLINK}
    THEN DeviceClass
    ELSE IF system \in {DCGM_HEALTH_WATCH_THERMAL, DCGM_HEALTH_WATCH_POWER}
    THEN DeviceClass \cup {DCGM_FE_CPU}
    ELSE IF system \in {DCGM_HEALTH_WATCH_NVSWITCH_NONFATAL, DCGM_HEALTH_WATCH_NVSWITCH_FATAL}
    THEN {DCGM_FE_SWITCH}
    ELSE {}

\* C29: every incident of a MonitorWatches call has a category whose bit is
\* set in the mask stored for the group (none when the group has no mask);
\* PCIe, Memory, Inforom and NVLink incidents are about device-class entities
\* only, the two switch categories about switches only, Thermal and Power
\* about device-class entities or CPUs only; no incident is about a link
\* entity or has a category outside these eight.
C29_TypeAndMaskRouting ==
    last.op = "MonitorWatches"
    => \A k \in 1 .. Len(last.inc) :
          /\ last.mask # Unset
          /\ HasBit(last.mask, last.inc[k].system)
          /\ last.inc[k].entityGroupId \in RoutedTo(last.inc[k].system)
          /\ last.inc[k].entityGroupId # DCGM_FE_LINK

\* a mask of PCIe and Thermal under answers that give Memory, Power and switch
\* incidents when those are watched: the PCIe and Thermal evaluators ran, the
\* CPU got its Thermal incident, and there is no incident of another category
C29_Witness ==
    /\ last.op = "MonitorWatches"
    /\ last.mask = DCGM_HEALTH_WATCH_PCIE + DCGM_HEALTH_WATCH_THERMAL
    /\ last.px = PxPlain
    /\ RunsOf("MonitorPcie") # {}
    /\ SystemIncidents(DCGM_FE_CPU, 0, DCGM_HEALTH_WATCH_THERMAL) # {}
    /\ \A k \in 1 .. Len(last.inc) : last.inc[k].system = DCGM_HEALTH_WATCH_THERMAL

\* every category watched: incidents for a GPU instance, a CPU and a switch
C29_WitnessAll ==
    /\ last.op = "MonitorWatches"
    /\ last.mask = 4095
    /\ SystemIncidents(DCGM_FE_GPU_I, 1, DCGM_HEALTH_WATCH_MEM) # {}
    /\ SystemIncidents(DCGM_FE_CPU, 0, DCGM_HEALTH_WATCH_POWER) # {}
    /\ SystemIncidents(DCGM_FE_SWITCH, 0, DCGM_HEALTH_WATCH_NVSWITCH_NONFATAL) # {}
    /\ SystemIncidents(DCGM_FE_GPU, 0, DCGM_HEALTH_WATCH_NVLINK) # {}

(***************************************************************************)
(* m_mutex and the calls into the core proxy                               *)
(***************************************************************************)
ProxyCalls ==
    {"GetGroupEntities", "AddFieldWatch", "GetSamples", "GetLatestSample", "UpdateAllFields",
     "GetEntityNvLinkLinkStatus"}

GuardedAccesses ==
    {"mGroupWatchState.write", "mGroupWatchState.find", "mGroupWatchState.erase",
     "m_gpuHadUncontainedErrorXid.find", "m_gpuHadUncontainedErrorXid.insert"}

\* the mutex after the call l, with the events of the call
Locking(l) ==
    CASE l.op \in {"SetWatches", "MonitorWatches", "MonitorWatchesForGpu"} ->
            CallLocking(Mutex(FALSE), l.tr)
      [] l.op = "GetWatches" -> GetWatchesLocking(Mutex(FALSE), l.geRet)
      [] l.op = "OnGroupRemove" -> OnGroupRemoveLocking(Mutex(FALSE))
      [] l.op = "OnFieldValuesUpdate" -> l.lk
      [] OTHER -> Mutex(FALSE)

HeldDuring(m, evs) == {j \in 1 .. Len(m.tr) : m.tr[j].ev \in evs /\ m.tr[j].held}
FreeDuring(m, evs) == {j \in 1 .. Len(m.tr) : m.tr[j].ev \in evs /\ ~m.tr[j].held}

\* C22: in SetWatches, GetWatches, MonitorWatches, MonitorWatchesForGpu,
\* OnGroupRemove and OnFieldValuesUpdate the lock is never held while a call
\* into the core proxy (GetGroupEntities, AddFieldWatch, GetSamples,
\* GetLatestSample, UpdateAllFields, GetEntityNvLinkLinkStatus) is made;
\* it is held during every access to the registry and to the set of
\* uncontained errors, and a call that acquired it has released it when it
\* returns.
C22_NoProxyCallUnderLock ==
    /\ HeldDuring(Locking(last), ProxyCalls) = {}
    /\ FreeDuring(Locking(last), GuardedAccesses) = {}
    /\ Locking(last).released = Locking(last).acquired

\* a MonitorWatches that reads the registry under the lock, then queries the
\* sample store without it, takes the lock again for the lookup of the
\* uncontained errors and queries the sample store again
C22_Witness ==
    /\ last.op = "MonitorWatches"
    /\ \E a, b, c, d \in 1 .. Len(Locking(last).tr) :
          /\ a < b /\ b < c /\ c < d
          /\ Locking(last).tr[a] = [ev |-> "mGroupWatchState.find", held |-> TRUE]
          /\ Locking(last).tr[b] = [ev |-> "GetSamples", held |-> FALSE]
          /\ Locking(last).tr[c] = [ev |-> "m_gpuHadUncontainedErrorXid.find", held |-> TRUE]
          /\ Locking(last).tr[d] = [ev |-> "GetSamples", held |-> FALSE]

\* a SetWatches that stores the mask under the lock and subscribes without it
C22_WitnessSetWatches ==
    /\ last.op = "SetWatches"
    /\ \E a, b, c \in 1 .. Len(Locking(last).tr) :
          /\ a < b /\ b < c
          /\ Locking(last).tr[a] = [ev |-> "GetGroupEntities", held |-> FALSE]
          /\ Locking(last).tr[b] = [ev |-> "mGroupWatchState.write", held |-> TRUE]
          /\ Locking(last).tr[c] = [ev |-> "AddFieldWatch", held |-> FALSE]

\* the values of the frame that flag a GPU
FatalValues(fvBuffer) ==
    {k \in 1 .. Len(fvBuffer) : /\ fvBuffer[k].entityGroupId = DCGM_FE_GPU
                                /\ fvBuffer[k].fieldId = DCGM_FI_DEV_XID_ERRORS
                                /\ fvBuffer[k].value = XID_UNCONTAINED}

\* C23: OnFieldValuesUpdate called by a context that holds the lock goes
\* through the whole frame, the acquisition at its start and the nested one
\* for each fatal XID included, acquires and releases nothing and returns with
\* the lock still held; called by a context that does not hold the lock it
\* acquires it once and returns with the lock released.  Either way every
\* insertion happens with the lock held and the lock is never released more
\* often than it was acquired.
C23_ReentrantIngestion ==
    last.op = "OnFieldValuesUpdate"
    => /\ last.lk.held = last.held
       /\ last.lk.released <= last.lk.acquired
       /\ last.held => last.lk.acquired = 0 /\ last.lk.released = 0
       /\ ~last.held => last.lk.acquired = 1 /\ last.lk.released = 1
       /\ Cardinality(HeldDuring(last.lk, {"m_gpuHadUncontainedErrorXid.insert"}))
          = Cardinality(FatalValues(last.fvBuffer))
       /\ FreeDuring(last.lk, {"m_gpuHadUncontainedErrorXid.insert"}) = {}
       /\ Cardinality({j \in 1 .. Len(last.lk.tr) : last.lk.tr[j].ev = "m_mutex.lock"})
          = 1 + Cardinality(FatalValues(last.fvBuffer))

\* the caller holds the lock and the frame has two fatal XIDs: three
\* acquisitions answered, both GPUs flagged, the lock still held
C23_Witness ==
    /\ last.op = "OnFieldValuesUpdate"
    /\ last.held
    /\ Cardinality(FatalValues(last.fvBuffer)) = 2
    /\ {0, 1} \subseteq m_gpuHadUncontainedErrorXid
    /\ last.lk.held
    /\ last.lk.released = 0

\* the caller does not hold the lock and the frame has a fatal XID
C23_WitnessFree ==
    /\ last.op = "OnFieldValuesUpdate"
    /\ ~last.held
    /\ FatalValues(last.fvBuffer) # {}
    /\ ~last.lk.held
    /\ last.lk.released = 1

=============================================================================
